---- MODULE Spec2Model ----
(***************************************************************************)
(* Model of the agent control loop of prometheus-ultra: one session of     *)
(* run_enhanced_agent_loop (api/app.py) with its SessionState              *)
(* (api/utils/state.py), the argument sandbox (api/utils/sandbox.py), the  *)
(* batch executor (api/utils/parallel.py) and the SSE channel with its     *)
(* stream consumer and the DELETE /sessions/{id} handler (api/utils/sse.py *)
(* and api/app.py).                                                        *)
(*                                                                         *)
(* The agent loop, the stream generator and the DELETE handler are tasks   *)
(* of one asyncio event loop: another task runs only while the agent loop  *)
(* is suspended in an await (LLM call, tool call, batch gather) or has     *)
(* finished.  The workers of the batch executor are operating-system       *)
(* threads and run at any time.                                            *)
(***************************************************************************)
EXTENDS Integers, Sequences, FiniteSets, TLC

\* ------------------------------------------------------------------ bounds
MaxSteps == 2
StreamMaxSteps == 1
LoopMaxSteps == 4
MaxObsCalls == 10
MaxFactCalls == 52
MaxTrendCalls == 12
MaxCancels == 1
MaxKeepalives == 1
MaxRequests == 2
MaxWrites == 1
MaxDeletes == 2
MaxSubgoals == 9
MaxChain == 4
MaxMarks == 4

\* ------------------------------------------------------- program constants
MaxLimit == 500
MaxLength == 65536
MaxBatchSize == 10
MaxObs == 8
MaxFacts == 50
MaxTrend == 10
SwitchThreshold == 3
RetryBudget == 1

\* --------------------------------------------------------- tool registry
\* ToolRegistry._get_builtin_tool: the built-in tools a configuration can
\* register.  load_from_config skips disabled entries, so every registered
\* tool has an enabled policy.
Registered ==
    {"list_files", "read_file", "count_files", "count_dirs",
     "delete_files", "web_get", "analyze", "summarize"}

\* policy field blocked_domains of web_get
BlockedDomains == {"blocked.example"}

get_tool(name) == name \in Registered

is_enabled(name) == TRUE

\* ------------------------------------------------------------- sandbox
\* variant of validate_tool_args that does not enforce confirm on delete_files
validate_tool_args_unconfirmed(tool_name, args) ==
    IF tool_name \in {"list_files", "count_files", "count_dirs"}
    THEN [ok |-> TRUE,
          args |-> IF "limit" \in DOMAIN args /\ args.limit > MaxLimit
                   THEN [args EXCEPT !.limit = MaxLimit]
                   ELSE args]
    ELSE IF tool_name = "web_get"
    THEN [ok |-> /\ "url" \in DOMAIN args
                 /\ args.url.scheme \in {"http", "https"}
                 /\ args.url.host \notin BlockedDomains,
          args |-> args]
    ELSE [ok |-> TRUE, args |-> args]

\* validate_tool_args: the result is either a rejection (SandboxError) or
\* the copied arguments with limit / length clamped to the policy.
validate_tool_args(tool_name, args) ==
    IF tool_name \in {"list_files", "count_files", "count_dirs"}
    THEN [ok |-> TRUE,
          args |-> IF "limit" \in DOMAIN args /\ args.limit > MaxLimit
                   THEN [args EXCEPT !.limit = MaxLimit]
                   ELSE args]
    ELSE IF tool_name = "read_file"
    THEN [ok |-> TRUE,
          args |-> IF "length" \in DOMAIN args /\ args.length > MaxLength
                   THEN [args EXCEPT !.length = MaxLength]
                   ELSE args]
    ELSE IF tool_name = "web_get"
    THEN IF "url" \notin DOMAIN args
         THEN [ok |-> FALSE, args |-> args]
         ELSE IF args.url.scheme \notin {"http", "https"}
         THEN [ok |-> FALSE, args |-> args]
         ELSE IF args.url.host \in BlockedDomains
         THEN [ok |-> FALSE, args |-> args]
         ELSE [ok |-> TRUE, args |-> args]
    ELSE IF tool_name = "delete_files"
    THEN IF ~ ("confirm" \in DOMAIN args /\ args.confirm = TRUE)
         THEN [ok |-> FALSE, args |-> args]
         ELSE [ok |-> TRUE, args |-> args]
    ELSE [ok |-> TRUE, args |-> args]

\* ------------------------------------------------------- session state
\* Path(value).expanduser().resolve() on the path spellings of the model
Resolve(p) ==
    CASE p = "~/a" -> "/home/u/a"
      [] p = "~/b" -> "/home/u/b"
      [] OTHER -> p

\* SessionState.canonicalize_args: path-valued arguments are resolved, the
\* keys sorted and the serialisation hashed; the digest is modelled as the
\* canonical mapping itself (an injective hash).
canonicalize_args(action, args) ==
    <<action, [k \in DOMAIN args |->
                 IF k \in {"dir", "path", "file"} THEN Resolve(args[k])
                 ELSE args[k]]>>

is_duplicate_attempt(attempts, action, args) ==
    canonicalize_args(action, args) \in attempts

\* variant of mark_attempt that keeps the key after a success
mark_attempt_keeping(attempts, action, args, success) ==
    IF ~ success
    THEN attempts \cup {canonicalize_args(action, args)}
    ELSE attempts

\* SessionState.mark_attempt: the new attempt_set
mark_attempt(attempts, action, args, success) ==
    IF ~ success
    THEN attempts \cup {canonicalize_args(action, args)}
    ELSE attempts \ {canonicalize_args(action, args)}

\* variant of LastN that makes room by dropping the element before the
\* newest one instead of the oldest
LastNKeepingOldest(s, n) ==
    IF Len(s) > n THEN Append(SubSeq(s, 1, n - 1), s[Len(s)]) ELSE s

\* keep the last n elements of a sequence (lst[-n:])
LastN(s, n) == IF Len(s) > n THEN SubSeq(s, Len(s) - n + 1, Len(s)) ELSE s

add_observation(obs_list, obs) == LastN(Append(obs_list, obs), MaxObs)

\* (a fact is a string: the empty one, <<>>, is falsy and ignored)
add_fact(fact_list, fact) ==
    IF fact = <<>> \/ \E i \in 1..Len(fact_list) : fact_list[i] = fact
    THEN fact_list
    ELSE LastN(Append(fact_list, fact), MaxFacts)

update_confidence(trend, c) == LastN(Append(trend, c), MaxTrend)

should_switch_strategy(npc) == npc >= SwitchThreshold

\* --------------------------------------------------------- planner inputs
\* The plans the planning step may return (LLM output is unconstrained):
\* next_action with either a mapping (is_list = FALSE) or a list of mappings.
SmallCount == [dir |-> "~/a", limit |-> 50]
BigCount == [dir |-> "~/a", limit |-> 1000]
OtherCount == [dir |-> "~/b", limit |-> 1000]
DeleteNoConfirm == [path |-> "~/a", confirm |-> FALSE]
DeleteConfirm == [path |-> "~/a", confirm |-> TRUE]
DeleteOther == [path |-> "~/b", confirm |-> FALSE]
FileUrl == [url |-> [scheme |-> "file", host |-> "etc"]]

SameDirOtherSpelling == [dir |-> "/home/u/a", limit |-> 1000]

\* a directory that resolves outside the sandbox root (the user's home)
OutsideCount == [dir |-> "/etc", limit |-> 50]

\* directories for the tasks of a large batch
DirNames ==
    <<"/d1", "/d2", "/d3", "/d4", "/d5", "/d6", "/d7", "/d8", "/d9", "/d10",
      "/d11">>

\* the args list of a batch of n count_files tasks on n directories
BatchOf(n) == [i \in 1..n |-> [dir |-> DirNames[i], limit |-> 50]]

\* (a sequence, not a set: a mapping and a list are not comparable values)
Plans ==
    << [next_action |-> "count_files", is_list |-> FALSE, args |-> SmallCount],
       [next_action |-> "count_files", is_list |-> FALSE, args |-> BigCount],
       [next_action |-> "delete_files", is_list |-> FALSE, args |-> DeleteNoConfirm],
       [next_action |-> "delete_files", is_list |-> FALSE, args |-> DeleteConfirm],
       [next_action |-> "web_get", is_list |-> FALSE, args |-> FileUrl],
       [next_action |-> "no_such_tool", is_list |-> FALSE, args |-> SmallCount],
       [next_action |-> "count_files", is_list |-> TRUE,
        args |-> <<SmallCount, OtherCount>>],
       [next_action |-> "delete_files", is_list |-> TRUE,
        args |-> <<DeleteConfirm, DeleteOther>>],
       [next_action |-> "count_files", is_list |-> TRUE,
        args |-> BatchOf(MaxBatchSize)],
       [next_action |-> "count_files", is_list |-> TRUE,
        args |-> BatchOf(MaxBatchSize + 1)],
       [next_action |-> "count_files", is_list |-> TRUE,
        args |-> <<SmallCount, SmallCount, SmallCount>>],
       [next_action |-> "count_files", is_list |-> TRUE,
        args |-> <<SmallCount, BigCount>>],
       [next_action |-> "count_files", is_list |-> TRUE,
        args |-> <<SmallCount, SameDirOtherSpelling>>],
       \* a list of one element: not a batch (len(args) > 1 is false)
       [next_action |-> "count_files", is_list |-> TRUE,
        args |-> <<SmallCount>>],
       \* create_knowledge_plan: the plan for a knowledge question
       [next_action |-> "analyze", is_list |-> FALSE,
        args |-> [prompt |-> "answer the question",
                  context |-> "knowledge question"]],
       \* a count in a directory outside the sandbox root
       [next_action |-> "count_files", is_list |-> FALSE,
        args |-> OutsideCount] >>

NoPlan == [next_action |-> "", is_list |-> FALSE, args |-> [none |-> TRUE]]

\* ------------------------------------------------------------- variables
VARIABLES
    pc,              \* position of the agent-loop task
    step,            \* local step of run_enhanced_agent_loop
    input,           \* the request parameters max_steps and destructive, and
                     \* plans: which of Plans the planning step can return
    plan,            \* the plan of the current step
    result,          \* locals observation / error_class / signature
    tasks,           \* BatchTask objects of the current batch and their workers
    batch_results,   \* what execute_batch returned to the loop
    cancelled,       \* SSEManager.cancelled
    sse_step,        \* SSEManager.step
    pending_puts,    \* tasks created by SSEManager.cancel, not yet run
    cancels,         \* DELETE requests served
    channel,         \* every event put on SSEManager._event_queue, in order
    read,            \* number of queue items the stream generator has taken
    sent,            \* what the stream generator has yielded to the client
    stream_done,     \* the stream generator has returned
    keepalives,      \* keepalive events yielded
    active,          \* session_id in active_sessions
    attempt_set,     \* SessionState.attempt_set
    step_ledger,     \* SessionState.step_ledger
    total_steps,     \* SessionState.total_steps
    no_progress_count,
    strategy_switches,
    last_obs,        \* SessionState.last_obs
    facts,           \* SessionState.blackboard['facts']
    confidence_trend,
    invocations,     \* history of tool function calls
    active_sessions, \* app.active_sessions: session id -> the request whose
                     \* SSEManager is registered under it (0: no entry)
    sessions,        \* StateManager.sessions: session id -> the SessionState
                     \* object stored under it (0: no entry)
    requests,        \* the /auto/stream requests: position, session id, the
                     \* SessionState object their loop holds, cancel flag
    state_ledgers,   \* step_ledger of each SessionState object: who wrote
    http_response,   \* the answer to the latest DELETE /sessions/{id}
    planning,        \* a call of enhanced_planning_step and the plan it emits
    fallback,        \* a call of call_with_fallback
    marks,           \* the mark_attempt calls made on the session, in order
    canon,           \* two argument mappings and the keys canonicalize_args
                     \* gave them
    critic           \* a critic review of the loop: the plan reviewed, how
                     \* the LLM call went, and the critic result

sessionVars == <<pc, step, input, plan, result, tasks, batch_results,
          cancelled, sse_step, pending_puts, cancels, channel, read, sent,
          stream_done, keepalives, active, attempt_set, step_ledger,
          total_steps, no_progress_count, strategy_switches, last_obs, facts,
          confidence_trend, invocations>>

callVars == <<marks, canon, critic>>

serverVars == <<active_sessions, sessions, requests, state_ledgers,
                http_response, planning, fallback, callVars>>

vars == <<sessionVars, serverVars>>

loopVars == <<pc, step, plan, result>>
batchVars == <<tasks, batch_results>>
streamVars == <<read, sent, stream_done, keepalives>>
cancelVars == <<cancelled, pending_puts, cancels>>
stateVars == <<attempt_set, step_ledger, total_steps, no_progress_count,
               strategy_switches, last_obs, facts, confidence_trend>>

\* ---------------------------------------------------------------- events
\* enum: the event type was passed to emit as an SSEEvent member (the
\* emit_* helpers of sse.py) and not as a plain string (emit_thinking and
\* emit_reasoning of app.py).  n: the loop's step when the event was made.
Thinking == [event |-> "thinking", enum |-> FALSE, n |-> step]
Status == [event |-> "status", enum |-> TRUE, n |-> step]
PlanEv(p) == [event |-> "plan", enum |-> TRUE, n |-> step,
              tool |-> p.next_action, args |-> p.args]
CriticEv(approved) == [event |-> "critic", enum |-> TRUE, n |-> step,
                       approved |-> approved]
ExecEv(tool, args, idx) == [event |-> "exec", enum |-> TRUE, n |-> step,
                            tool |-> tool, args |-> args, batch_idx |-> idx]
ObsEv(error_class, batch) == [event |-> "obs", enum |-> TRUE, n |-> step,
                              error_class |-> error_class, batch |-> batch]
HypEv == [event |-> "hyp", enum |-> TRUE, n |-> step]
BbEv == [event |-> "bb", enum |-> TRUE, n |-> step]
MetEv == [event |-> "met", enum |-> TRUE, n |-> step]
FinalEv(success, confidence) ==
    [event |-> "final", enum |-> TRUE, n |-> step,
     success |-> success, confidence |-> confidence]
CancelEv == [event |-> "cancel", enum |-> TRUE, n |-> step,
             data_step |-> sse_step]
KeepaliveEv == [event |-> "keepalive", enum |-> FALSE, n |-> step]

\* SSEManager.emit: dropped when the session is cancelled and the type is an
\* SSEEvent member other than CANCEL; otherwise put on the queue.
emit(ch, e) ==
    IF cancelled /\ (e.enum /\ e.event # "cancel") THEN ch ELSE Append(ch, e)

RECURSIVE EmitAll(_, _)
EmitAll(ch, evs) ==
    IF evs = <<>> THEN ch ELSE EmitAll(emit(ch, Head(evs)), Tail(evs))

\* variant of StreamTerminals in which a cancel event does not end the stream
StreamTerminalsWithoutCancel == {"final", "error"}

\* SSEManager.stream stops after yielding one of these
StreamTerminals == {"final", "cancel", "error"}

\* ------------------------------------------------------------------ init
\* the /auto/stream requests followed, the session ids a caller supplies,
\* the ids uuid4 draws (one per request, never one drawn or supplied
\* before), and an id no request uses
Requests == 1..MaxRequests
SuppliedIds == {"s1", "s2"}
UuidOf(r) == <<"u1", "u2", "u3", "u4">>[r]
SessionIds == SuppliedIds \cup {UuidOf(r) : r \in Requests}
UnknownId == "nobody"

NoResponse == [n |-> 0, id |-> UnknownId, status |-> 0, cancelled |-> FALSE]

\* no request received, no planning call and no LLM call made
ServerIdle ==
    /\ active_sessions = [i \in SessionIds |-> 0]
    /\ sessions = [i \in SessionIds |-> 0]
    /\ requests = [r \in Requests |->
                     [phase |-> "none", sid |-> UnknownId, state |-> 0,
                      cancelled |-> FALSE, writes |-> 0]]
    /\ state_ledgers = [r \in Requests |-> <<>>]
    /\ http_response = NoResponse
    /\ planning = [stage |-> "idle"]
    /\ fallback = [stage |-> "idle"]
    /\ marks = <<>>
    /\ canon = [stage |-> "idle"]
    /\ critic = [stage |-> "idle"]

InitSession ==
    /\ ServerIdle
    /\ pc = "created"
    /\ step = 0
    /\ plan = NoPlan
    /\ result = [error_class |-> "none", signature |-> "unset"]
    /\ tasks = <<>>
    /\ batch_results = <<>>
    /\ cancelled = FALSE
    /\ sse_step = 0
    /\ pending_puts = 0
    /\ cancels = 0
    /\ channel = <<>>
    /\ read = 0
    /\ sent = <<>>
    /\ stream_done = FALSE
    /\ keepalives = 0
    /\ active = TRUE
    /\ attempt_set = {}
    /\ step_ledger = <<>>
    /\ total_steps = 0
    /\ no_progress_count = 0
    /\ strategy_switches = 0
    /\ last_obs = <<>>
    /\ facts = <<>>
    /\ confidence_trend = <<>>
    /\ invocations = <<>>

\* the plans of a session of the full loop: every kind of single call and
\* a batch of either tool
SessionPlans == 1..8

Init ==
    /\ input \in [max_steps : {MaxSteps}, destructive : BOOLEAN,
                  plans : {SessionPlans}]
    /\ InitSession

\* the sessions the stream consumer is followed on: a single call that can
\* succeed or fail, and a batch
StreamPlans == {1, 7}

InitStream ==
    /\ input \in [max_steps : {StreamMaxSteps}, destructive : BOOLEAN,
                  plans : {StreamPlans}]
    /\ InitSession

\* ------------------------------------------------------------- helpers
\* the agent-loop task is suspended in an await or has finished, so the
\* event loop can run the other tasks
AtSuspension ==
    pc \in {"created", "awaitPlan", "awaitCritic", "awaitTool", "awaitBatch",
            "awaitVerify", "awaitSwitch", "done"}

\* variant of the cleanup that leaves the session's entries in place
CleanupSkipped == active' = active

\* auto_stream.cleanup, run in the finally clause of agent_loop
CleanedUp == active' = FALSE

\* variant of single_tool_check without the destructive-permission check
single_tool_check_permissive(tool_name, args, destr, attempts) ==
    IF ~ get_tool(tool_name) THEN "unknown_tool"
    ELSE IF ~ validate_tool_args(tool_name, args).ok THEN "validation_error"
    ELSE IF is_duplicate_attempt(attempts, tool_name,
                                 validate_tool_args(tool_name, args).args)
         THEN "duplicate_blocked"
    ELSE "none"

\* the checks of execute_single_tool before the tool is called: the
\* error_class it returns, or "none" when the call goes ahead
single_tool_check(tool_name, args, destr, attempts) ==
    IF ~ get_tool(tool_name) THEN "unknown_tool"
    ELSE IF ~ is_enabled(tool_name) THEN "tool_disabled"
    ELSE IF ~ validate_tool_args(tool_name, args).ok THEN "validation_error"
    ELSE IF tool_name = "delete_files" /\ ~ destr THEN "destructive_blocked"
    ELSE IF is_duplicate_attempt(attempts, tool_name,
                                 validate_tool_args(tool_name, args).args)
         THEN "duplicate_blocked"
    ELSE "none"

\* execute_single_tool when args is a list: args.copy() succeeds, web_get
\* finds no url in it, and is_duplicate_attempt raises AttributeError in
\* canonicalize_args (args.items()), which classify_tool_error names
\* execution_error
single_tool_check_list(tool_name, destr) ==
    IF ~ get_tool(tool_name) THEN "unknown_tool"
    ELSE IF ~ is_enabled(tool_name) THEN "tool_disabled"
    ELSE IF tool_name = "web_get" THEN "validation_error"
    ELSE IF tool_name = "delete_files" /\ ~ destr THEN "destructive_blocked"
    ELSE "execution_error"

\* the arguments execute_single_tool passes to emit_exec and to the tool
single_tool_args(tool_name, args) == validate_tool_args(tool_name, args).args

\* the arguments _execute_single_task passes to the tool: task.args as planned
batch_task_args(tool_name, args) == args

Invocation(tool, args, via) ==
    [tool |-> tool, args |-> args, n |-> step, via |-> via,
     result |-> "pending"]

\* ------------------------------------------------------- agent loop task
\* run_enhanced_agent_loop up to the while loop
BeginLoop ==
    /\ pc = "created"
    /\ channel' = EmitAll(channel, <<Status, Thinking>>)
    /\ pc' = "loop"
    /\ UNCHANGED <<step, plan, result, input, sse_step, active, invocations>>
    /\ UNCHANGED serverVars
    /\ UNCHANGED <<batchVars, streamVars, cancelVars, stateVars>>

\* variant of LoopTop whose while test lets one more step through
LoopTopOneMore ==
    /\ pc = "loop"
    /\ IF step <= input.max_steps
       THEN /\ step' = step + 1
            /\ channel' = EmitAll(channel, <<[Status EXCEPT !.n = step + 1],
                                             [Thinking EXCEPT !.n = step + 1]>>)
            /\ pc' = "awaitPlan"
            /\ UNCHANGED active
       ELSE /\ channel' = EmitAll(channel, <<Thinking, FinalEv(FALSE, 50)>>)
            /\ pc' = "done"
            /\ CleanedUp
            /\ UNCHANGED step
    /\ UNCHANGED <<plan, result, input, serverVars, sse_step, invocations>>
    /\ UNCHANGED <<batchVars, streamVars, cancelVars, stateVars>>

\* the while test; either the start of a step up to the planner call, or
\* the max-steps exit with final(success=false, confidence=0.5) and cleanup
LoopTop ==
    /\ pc = "loop"
    /\ IF step < input.max_steps
       THEN /\ step' = step + 1
            /\ channel' = EmitAll(channel, <<[Status EXCEPT !.n = step + 1],
                                             [Thinking EXCEPT !.n = step + 1]>>)
            /\ pc' = "awaitPlan"
            /\ UNCHANGED active
       ELSE /\ channel' = EmitAll(channel, <<Thinking, FinalEv(FALSE, 50)>>)
            /\ pc' = "done"
            /\ CleanedUp
            /\ UNCHANGED step
    /\ UNCHANGED <<plan, result, input, serverVars, sse_step, invocations>>
    /\ UNCHANGED <<batchVars, streamVars, cancelVars, stateVars>>

\* enhanced_planning_step returns a plan (every branch emits one plan event)
\* and the loop announces it and calls the critic
PlanReturn ==
    /\ pc = "awaitPlan"
    /\ \E i \in input.plans :
         /\ plan' = Plans[i]
         /\ channel' = EmitAll(channel, <<Thinking, PlanEv(Plans[i]), Thinking,
                                          Thinking, Thinking>>)
    /\ pc' = "awaitCritic"
    /\ UNCHANGED <<step, result, input, sse_step, active, invocations>>
    /\ UNCHANGED serverVars
    /\ UNCHANGED <<batchVars, streamVars, cancelVars, stateVars>>

\* the critic answers (or fails, which counts as approved); the verdict is
\* emitted and logged, the plan is executed whatever the verdict
CriticReturn ==
    /\ pc = "awaitCritic"
    /\ \E approved \in BOOLEAN :
         channel' = EmitAll(channel, <<Thinking, CriticEv(approved), Status,
                                       Thinking>>)
    /\ pc' = "exec"
    /\ UNCHANGED <<step, plan, result, input, sse_step, active, invocations>>
    /\ UNCHANGED serverVars
    /\ UNCHANGED <<batchVars, streamVars, cancelVars, stateVars>>

\* execute_single_tool up to the tool call
ExecSingle ==
    /\ pc = "exec"
    /\ ~ (plan.is_list /\ Len(plan.args) > 1)
    /\ LET chk == IF plan.is_list
                  THEN single_tool_check_list(plan.next_action,
                                              input.destructive)
                  ELSE single_tool_check(plan.next_action, plan.args,
                                         input.destructive, attempt_set)
           vargs == single_tool_args(plan.next_action, plan.args)
       IN IF chk # "none"
          THEN /\ result' = [error_class |-> chk, signature |-> "error"]
               /\ pc' = "obs"
               /\ UNCHANGED <<channel, invocations>>
          ELSE /\ channel' = emit(channel, ExecEv(plan.next_action, vargs, -1))
               /\ invocations' = Append(invocations,
                                   Invocation(plan.next_action, vargs, "single"))
               /\ pc' = "awaitTool"
               /\ UNCHANGED result
    /\ UNCHANGED <<step, plan, input, serverVars, sse_step, active>>
    /\ UNCHANGED <<batchVars, streamVars, cancelVars, stateVars>>

\* the paths of the model that PathValidator.validate_path finds outside
\* the sandbox root: resolved.relative_to(sandbox_root) raises ValueError
\* and validate_path raises SandboxError("Path outside sandbox: ...")
OutsideSandbox == {"/etc"}

\* the exceptions a tool function raises: the type and the marker words of
\* classify_tool_error that its message contains
SandboxOutside == [type |-> "SandboxError", words |-> {}]
ToolFailure == [type |-> "Exception", words |-> {}]

\* classify_tool_error: by words of the message, then by exception type
classify_tool_error(e) ==
    IF e.words \cap {"permission", "access"} # {} THEN "access_denied"
    ELSE IF "timeout" \in e.words THEN "timeout"
    ELSE IF e.words \cap {"connection", "network"} # {} THEN "network_error"
    ELSE IF e.words \cap {"file not found", "no such file"} # {}
         THEN "file_not_found"
    ELSE IF e.words \cap {"json", "parse"} # {} THEN "json_parse_error"
    ELSE IF e.type \in {"ValueError", "TypeError"} THEN "validation_error"
    ELSE "execution_error"

\* a filesystem tool validates its dir first and raises for a path outside
\* the sandbox; otherwise the call can succeed or fail
path_escapes(args) ==
    "dir" \in DOMAIN args /\ Resolve(args.dir) \in OutsideSandbox

tool_outcomes(args) == IF path_escapes(args) THEN {FALSE} ELSE BOOLEAN

tool_exception(args) ==
    IF path_escapes(args) THEN SandboxOutside ELSE ToolFailure

\* the tool function returns or raises (classify_tool_error names the class)
ToolReturn ==
    /\ pc \in {"awaitTool", "awaitSwitch"}
    /\ \E ok \in tool_outcomes(invocations[Len(invocations)].args) :
         /\ invocations' = [invocations EXCEPT ![Len(invocations)].result =
                              IF ok THEN "ok" ELSE "error"]
         /\ IF pc = "awaitSwitch"
            THEN /\ last_obs' = add_observation(last_obs,
                                   IF ok THEN "none"
                                   ELSE classify_tool_error(tool_exception(
                                     invocations[Len(invocations)].args)))
                 /\ pc' = "loop"
                 /\ UNCHANGED result
            ELSE /\ result' = IF ok
                              THEN [error_class |-> "none", signature |-> "dict"]
                              ELSE [error_class |->
                                      classify_tool_error(tool_exception(
                                        invocations[Len(invocations)].args)),
                                    signature |-> "error"]
                 /\ pc' = "obs"
                 /\ UNCHANGED last_obs
    /\ UNCHANGED <<step, plan, input, serverVars, sse_step, active, channel>>
    /\ UNCHANGED <<batchVars, streamVars, cancelVars>>
    /\ UNCHANGED <<attempt_set, step_ledger, total_steps, no_progress_count,
                   strategy_switches, facts, confidence_trend>>

\* variant of add_ledger_entry that overwrites the newest entry
add_ledger_entry_overwriting(ledger, entry) ==
    IF ledger = <<>> THEN <<entry>>
    ELSE [ledger EXCEPT ![Len(ledger)] = entry]

\* SessionState.add_ledger_entry: the new step_ledger
add_ledger_entry(ledger, entry) == Append(ledger, entry)

\* SessionState.add_ledger_entry: the new no_progress_count
ledger_progress(npc, status) ==
    IF status = "no_progress" THEN npc + 1
    ELSE IF status = "ok" THEN 0
    ELSE npc

\* single path after execute_single_tool: obs, ledger entry, mark_attempt,
\* hypothesis, blackboard, metrics, then the verifier call
Observe ==
    /\ pc = "obs"
    /\ ~ plan.is_list
    /\ LET ok == result.error_class = "none"
           status == IF ok THEN "ok" ELSE "error"
           entry == [step |-> step, action |-> plan.next_action, batch |-> FALSE,
                     args |-> plan.args,
                     args_key |-> canonicalize_args(plan.next_action, plan.args),
                     status |-> status, error_class |-> result.error_class]
       IN /\ channel' = EmitAll(channel,
                 <<Thinking, ObsEv(result.error_class, FALSE), Status, Thinking,
                   Thinking, HypEv>>
                 \o (IF ok THEN <<Thinking>> ELSE <<>>)
                 \o <<BbEv, MetEv, Thinking>>)
          /\ last_obs' = add_observation(last_obs, result.error_class)
          /\ step_ledger' = add_ledger_entry(step_ledger, entry)
          /\ total_steps' = total_steps + 1
          /\ no_progress_count' = ledger_progress(no_progress_count, status)
          /\ attempt_set' = mark_attempt(attempt_set, plan.next_action,
                                         plan.args, ok)
          /\ facts' = IF ok THEN add_fact(facts, <<step, plan.next_action>>)
                      ELSE facts
    /\ pc' = "awaitVerify"
    /\ UNCHANGED <<step, plan, result, input, sse_step, active, invocations>>
    /\ UNCHANGED serverVars
    /\ UNCHANGED <<batchVars, streamVars, cancelVars>>
    /\ UNCHANGED <<strategy_switches, confidence_trend>>

\* single path after execute_single_tool when args is a list: obs and
\* add_observation, then canonicalize_args raises AttributeError and the
\* except clause of the loop finishes the session
ObserveRaise ==
    /\ pc = "obs"
    /\ plan.is_list
    /\ channel' = EmitAll(channel,
           <<Thinking, ObsEv(result.error_class, FALSE), Thinking,
             FinalEv(FALSE, 0)>>)
    /\ last_obs' = add_observation(last_obs, result.error_class)
    /\ pc' = "done"
    /\ CleanedUp
    /\ UNCHANGED <<step, plan, result, input, sse_step, invocations>>
    /\ UNCHANGED serverVars
    /\ UNCHANGED <<batchVars, streamVars, cancelVars>>
    /\ UNCHANGED <<attempt_set, step_ledger, total_steps, no_progress_count,
                   strategy_switches, facts, confidence_trend>>

\* what the verifier can answer; raised: the except branch of the loop
\* (finish with confidence 0.6)
Verdicts ==
    { [finish |-> TRUE, confidence |-> 90],
      [finish |-> FALSE, confidence |-> 30],
      [finish |-> TRUE, confidence |-> 60] }

\* the verifier answers: final and cleanup, or the next iteration (with the
\* strategy switch when no_progress_count has reached the threshold)
VerifyReturn ==
    /\ pc = "awaitVerify"
    /\ \E v \in Verdicts :
         /\ confidence_trend' = update_confidence(confidence_trend, v.confidence)
         /\ IF v.finish
            THEN /\ channel' = EmitAll(channel, <<Thinking, Thinking, Thinking,
                                                  FinalEv(TRUE, v.confidence)>>)
                 /\ pc' = "done"
                 /\ CleanedUp
                 /\ UNCHANGED <<no_progress_count, strategy_switches, last_obs,
                                invocations>>
            ELSE IF should_switch_strategy(no_progress_count)
            THEN LET chk == single_tool_check("analyze", [prompt |-> "next"],
                                              FALSE, attempt_set)
                 IN /\ no_progress_count' = 0
                    /\ strategy_switches' = strategy_switches + 1
                    /\ UNCHANGED active
                    /\ IF chk # "none"
                       THEN /\ channel' = EmitAll(channel,
                                            <<Thinking, Thinking, Thinking>>)
                            /\ last_obs' = add_observation(last_obs, chk)
                            /\ pc' = "loop"
                            /\ UNCHANGED invocations
                       ELSE /\ channel' = EmitAll(channel,
                                   <<Thinking, Thinking, Thinking,
                                     ExecEv("analyze", [prompt |-> "next"], -1)>>)
                            /\ invocations' = Append(invocations,
                                   Invocation("analyze", [prompt |-> "next"],
                                              "single"))
                            /\ pc' = "awaitSwitch"
                            /\ UNCHANGED last_obs
            ELSE /\ channel' = EmitAll(channel, <<Thinking, Thinking>>)
                 /\ pc' = "loop"
                 /\ UNCHANGED <<active, no_progress_count, strategy_switches,
                                last_obs, invocations>>
    /\ UNCHANGED <<step, plan, result, input, serverVars, sse_step>>
    /\ UNCHANGED <<batchVars, streamVars, cancelVars>>
    /\ UNCHANGED <<attempt_set, step_ledger, total_steps, facts>>

\* ------------------------------------------------------------ batch path
WriteOperations == {"delete_files", "write_file", "move_file"}

\* the path-valued arguments of a task, as (idx, name) occurrences
PathUses(ts) ==
    {<<i, k>> \in (1..Len(ts)) \X {"path", "dir", "file"} :
        k \in DOMAIN ts[i].args}

\* variant of validate_batch_safety without the batch-size check
validate_batch_safety_any_size(ts) ==
    \/ Cardinality({i \in 1..Len(ts) : ts[i].tool_name \in WriteOperations}) > 1
    \/ \E i, j \in 1..Len(ts) : i # j /\ ts[i].args_key = ts[j].args_key
    \/ \E u, w \in PathUses(ts) :
          u # w /\ ts[u[1]].args[u[2]] = ts[w[1]].args[w[2]]

\* validate_batch_safety: TRUE when the list of errors is not empty
validate_batch_safety(ts) ==
    \/ Len(ts) > MaxBatchSize
    \/ Cardinality({i \in 1..Len(ts) : ts[i].tool_name \in WriteOperations}) > 1
    \/ \E i, j \in 1..Len(ts) : i # j /\ ts[i].args_key = ts[j].args_key
    \/ \E u, w \in PathUses(ts) :
          u # w /\ ts[u[1]].args[u[2]] = ts[w[1]].args[w[2]]

\* execute_batch (app.py): one BatchTask per element of the args list
create_batch_tasks(tool_name, args_list) ==
    [i \in 1..Len(args_list) |->
       [idx |-> i - 1, tool_name |-> tool_name, args |-> args_list[i],
        args_key |-> canonicalize_args(tool_name, args_list[i]),
        st |-> "new", inv |-> 0]]

\* ParallelExecutor.execute_batch, pre-validation of one task
prevalidate(attempts, t) ==
    IF is_duplicate_attempt(attempts, t.tool_name, t.args) THEN "duplicate_blocked"
    ELSE IF ~ get_tool(t.tool_name) THEN "unknown_tool"
    ELSE "queued"

\* the BatchResult of a task whose state is final for the caller
TaskResult(t) ==
    IF t.st = "ok" THEN [idx |-> t.idx, success |-> TRUE, error_class |-> "none"]
    ELSE IF t.st = "error"
    THEN [idx |-> t.idx, success |-> FALSE, error_class |-> "execution_error"]
    ELSE [idx |-> t.idx, success |-> FALSE, error_class |-> t.st]

\* the events BatchCoordinator.execute_with_streaming emits before it runs
\* the batch: one exec per task, in task order
batch_exec_events(ts) ==
    [i \in 1..Len(ts) |-> ExecEv(ts[i].tool_name, ts[i].args, ts[i].idx)]

\* execute_batch (app.py) up to the await of the gathered futures
ExecBatch ==
    /\ pc = "exec"
    /\ plan.is_list /\ Len(plan.args) > 1
    /\ LET ts == create_batch_tasks(plan.next_action, plan.args)
           checked == [i \in 1..Len(ts) |->
                         [ts[i] EXCEPT !.st = prevalidate(attempt_set, ts[i])]]
       IN IF validate_batch_safety(ts)
          THEN /\ channel' = emit(channel, Thinking)
               /\ batch_results' = <<[success |-> FALSE,
                                      error_class |-> "batch_validation_error"]>>
               /\ tasks' = <<>>
               /\ pc' = "batchObs"
          ELSE /\ channel' = EmitAll(channel,
                                     <<Thinking>> \o batch_exec_events(ts))
               /\ tasks' = checked
               /\ IF \E i \in 1..Len(ts) : checked[i].st = "queued"
                  THEN /\ pc' = "awaitBatch"
                       /\ UNCHANGED batch_results
                  ELSE /\ pc' = "batchObs"
                       /\ batch_results' =
                            [i \in 1..Len(ts) |-> TaskResult(checked[i])]
    /\ UNCHANGED <<step, plan, result, input, sse_step, active, invocations>>
    /\ UNCHANGED serverVars
    /\ UNCHANGED <<streamVars, cancelVars, stateVars>>

\* a worker thread picks a task up and calls the tool function
TaskStart ==
    \E i \in 1..Len(tasks) :
      /\ tasks[i].st = "queued"
      /\ invocations' = Append(invocations,
             [Invocation(tasks[i].tool_name,
                         batch_task_args(tasks[i].tool_name, tasks[i].args),
                         "batch") EXCEPT !.n = step])
      /\ tasks' = [tasks EXCEPT ![i].st = "running",
                                ![i].inv = Len(invocations) + 1]
      /\ UNCHANGED <<loopVars, input, serverVars, sse_step, active, channel,
                     batch_results>>
      /\ UNCHANGED <<streamVars, cancelVars, stateVars>>

\* the tool function returns or raises in the worker thread, which marks
\* the attempt on the session state itself
TaskFinish ==
    \E i \in 1..Len(tasks) : \E ok \in tool_outcomes(tasks[i].args) :
      /\ tasks[i].st = "running"
      /\ tasks' = [tasks EXCEPT ![i].st = IF ok THEN "ok" ELSE "error"]
      /\ invocations' = [invocations EXCEPT ![tasks[i].inv].result =
                           IF ok THEN "ok" ELSE "error"]
      /\ attempt_set' = mark_attempt(attempt_set, tasks[i].tool_name,
                                     tasks[i].args, ok)
      /\ UNCHANGED <<loopVars, input, serverVars, sse_step, active, channel,
                     batch_results>>
      /\ UNCHANGED <<streamVars, cancelVars>>
      /\ UNCHANGED <<step_ledger, total_steps, no_progress_count,
                     strategy_switches, last_obs, facts, confidence_trend>>

TaskSettled(t) == t.st \in {"duplicate_blocked", "unknown_tool", "ok", "error"}

\* variant of BatchGather that returns the results newest task first
BatchGatherReversed ==
    /\ pc = "awaitBatch"
    /\ \A i \in 1..Len(tasks) : TaskSettled(tasks[i])
    /\ batch_results' =
         [i \in 1..Len(tasks) |-> TaskResult(tasks[Len(tasks) + 1 - i])]
    /\ pc' = "batchObs"
    /\ UNCHANGED <<step, plan, result, input, sse_step, active, channel,
                   invocations, tasks>>
    /\ UNCHANGED serverVars
    /\ UNCHANGED <<streamVars, cancelVars, stateVars>>

\* asyncio.gather completes within the deadline: results by task index
BatchGather ==
    /\ pc = "awaitBatch"
    /\ \A i \in 1..Len(tasks) : TaskSettled(tasks[i])
    /\ batch_results' = [i \in 1..Len(tasks) |-> TaskResult(tasks[i])]
    /\ pc' = "batchObs"
    /\ UNCHANGED <<step, plan, result, input, sse_step, active, channel,
                   invocations, tasks>>
    /\ UNCHANGED serverVars
    /\ UNCHANGED <<streamVars, cancelVars, stateVars>>

\* the deadline expires first: no result was stored yet, so every dispatched
\* task is reported as timeout; futures not yet started are cancelled,
\* running workers go on
BatchTimeout ==
    /\ pc = "awaitBatch"
    /\ \E i \in 1..Len(tasks) : ~ TaskSettled(tasks[i])
    /\ batch_results' =
         [i \in 1..Len(tasks) |->
            IF tasks[i].st \in {"duplicate_blocked", "unknown_tool"}
            THEN TaskResult(tasks[i])
            ELSE [idx |-> tasks[i].idx, success |-> FALSE,
                  error_class |-> "timeout"]]
    /\ tasks' = [i \in 1..Len(tasks) |->
                   IF tasks[i].st = "queued"
                   THEN [tasks[i] EXCEPT !.st = "cancelled"]
                   ELSE tasks[i]]
    /\ pc' = "batchObs"
    /\ UNCHANGED <<step, plan, result, input, sse_step, active, channel,
                   invocations>>
    /\ UNCHANGED serverVars
    /\ UNCHANGED <<streamVars, cancelVars, stateVars>>

\* the error_class of the batch ledger entry: error_classes[0] if any
batch_error_class(rs) ==
    IF \E i \in 1..Len(rs) : rs[i].error_class # "none"
    THEN rs[1].error_class ELSE "none"

\* batch path after execute_batch: batched obs, observation, ledger entry;
\* mark_attempt is then called with the list of args, canonicalize_args
\* raises on it, and the except clause of the loop ends the session with
\* final(success=false, confidence=0.0)
BatchObserve ==
    /\ pc = "batchObs"
    /\ LET status == IF Len(batch_results) > 0 THEN "ok" ELSE "error"
           \* action is "<next_action>_batch": the tool name and a batch mark
           entry == [step |-> step, action |-> plan.next_action, batch |-> TRUE,
                     args |-> [batch_size |-> Len(plan.args)],
                     args_key |-> <<"batch", step>>, status |-> status,
                     error_class |-> batch_error_class(batch_results)]
       IN /\ channel' = EmitAll(channel,
                 <<Thinking, ObsEv(batch_error_class(batch_results), TRUE),
                   Thinking, FinalEv(FALSE, 0)>>)
          /\ last_obs' = add_observation(last_obs, "batch")
          /\ step_ledger' = add_ledger_entry(step_ledger, entry)
          /\ total_steps' = total_steps + 1
          /\ no_progress_count' = ledger_progress(no_progress_count, status)
    /\ pc' = "done"
    /\ CleanedUp
    /\ UNCHANGED <<step, plan, result, input, sse_step, invocations>>
    /\ UNCHANGED serverVars
    /\ UNCHANGED <<batchVars, streamVars, cancelVars>>
    /\ UNCHANGED <<attempt_set, strategy_switches, facts, confidence_trend>>

\* ------------------------------------------- cancel request and consumer
\* DELETE /sessions/{id} for a registered session: SSEManager.cancel sets
\* the flag and creates a task that will put the cancel event on the queue
Cancel ==
    /\ AtSuspension
    /\ active
    /\ cancels < MaxCancels
    /\ cancelled' = TRUE
    /\ pending_puts' = pending_puts + 1
    /\ cancels' = cancels + 1
    /\ UNCHANGED <<loopVars, input, sse_step, active, channel, invocations>>
    /\ UNCHANGED serverVars
    /\ UNCHANGED <<batchVars, streamVars, stateVars>>

\* the task created by SSEManager.cancel runs: the event goes on the queue
\* directly, not through emit
CancelPut ==
    /\ AtSuspension
    /\ pending_puts > 0
    /\ channel' = Append(channel, CancelEv)
    /\ pending_puts' = pending_puts - 1
    /\ UNCHANGED <<loopVars, input, serverVars, sse_step, active, invocations,
                   cancelled, cancels>>
    /\ UNCHANGED <<batchVars, streamVars, stateVars>>

\* variant of StreamNext that takes the newest queue item instead of the
\* oldest
StreamNextNewestFirst ==
    /\ AtSuspension
    /\ ~ stream_done
    /\ read < Len(channel)
    /\ sent' = Append(sent, channel[Len(channel)])
    /\ read' = read + 1
    /\ stream_done' = (channel[Len(channel)].event \in StreamTerminals)
    /\ UNCHANGED <<loopVars, input, serverVars, sse_step, active, channel,
                   invocations, keepalives>>
    /\ UNCHANGED <<batchVars, cancelVars, stateVars>>

\* SSEManager.stream takes the next queue item, yields it, and returns
\* after a terminal event
StreamNext ==
    /\ AtSuspension
    /\ ~ stream_done
    /\ read < Len(channel)
    /\ sent' = Append(sent, channel[read + 1])
    /\ read' = read + 1
    /\ stream_done' = (channel[read + 1].event \in StreamTerminals)
    /\ UNCHANGED <<loopVars, input, serverVars, sse_step, active, channel,
                   invocations, keepalives>>
    /\ UNCHANGED <<batchVars, cancelVars, stateVars>>

\* the queue stayed empty for 30 s: the stream yields a keepalive
StreamKeepalive ==
    /\ AtSuspension
    /\ ~ stream_done
    /\ read = Len(channel)
    /\ keepalives < MaxKeepalives
    /\ sent' = Append(sent, KeepaliveEv)
    /\ keepalives' = keepalives + 1
    /\ UNCHANGED <<loopVars, input, serverVars, sse_step, active, channel,
                   invocations, read, stream_done>>
    /\ UNCHANGED <<batchVars, cancelVars, stateVars>>

\* ---------------------------------------------------------- specification
\* the agent loop, the batch workers and the cancel request
Next ==
    \/ BeginLoop
    \/ LoopTop
    \/ PlanReturn
    \/ CriticReturn
    \/ ExecSingle
    \/ ToolReturn
    \/ Observe
    \/ VerifyReturn
    \/ ExecBatch
    \/ TaskStart
    \/ TaskFinish
    \/ BatchGather
    \/ BatchTimeout
    \/ BatchObserve
    \/ Cancel
    \/ CancelPut

Spec == Init /\ [][Next]_vars

\* the same with the stream generator that serves the client
NextStream ==
    \/ Next
    \/ StreamNext
    \/ StreamKeepalive

SpecStream == InitStream /\ [][NextStream]_vars

\* the single-call path of the loop over a longer budget, in a session no
\* DELETE request is made for: a call that can succeed, a call whose limit
\* is clamped, and an unregistered tool
LoopPlans == {1, 2, 6}

InitLoop ==
    /\ input \in [max_steps : {LoopMaxSteps}, destructive : {FALSE},
                  plans : {LoopPlans}]
    /\ InitSession

NextLoop ==
    \/ BeginLoop
    \/ LoopTop
    \/ PlanReturn
    \/ CriticReturn
    \/ ExecSingle
    \/ ToolReturn
    \/ Observe
    \/ VerifyReturn

SpecLoop == InitLoop /\ [][NextLoop]_vars

\* the single path for plans whose call is rejected, fails or succeeds, and
\* for a plan whose args is a list of one element
SinglePlans == {1, 3, 6, 14}

InitSingle ==
    /\ input \in [max_steps : {MaxSteps}, destructive : BOOLEAN,
                  plans : {SinglePlans}]
    /\ InitSession

NextSingle ==
    \/ BeginLoop
    \/ LoopTop
    \/ PlanReturn
    \/ CriticReturn
    \/ ExecSingle
    \/ ToolReturn
    \/ Observe
    \/ ObserveRaise
    \/ VerifyReturn

SpecSingle == InitSingle /\ [][NextSingle]_vars

\* a session whose goal is a knowledge question: enhanced_planning_step
\* returns create_knowledge_plan(goal) at every step
KnowledgePlans == {15}

InitKnowledge ==
    /\ input \in [max_steps : {MaxSteps}, destructive : BOOLEAN,
                  plans : {KnowledgePlans}]
    /\ InitSession

SpecKnowledge == InitKnowledge /\ [][NextLoop]_vars

\* the session with its stream under the scheduling of the event loop.  The
\* planner of a session returns a single call, or a batch, or the single
\* call whose observation raises inside the loop (the except clause ends
\* the session)
LivePlans == {{1}, {7}, {14}}

InitLive ==
    /\ input \in [max_steps : {StreamMaxSteps}, destructive : BOOLEAN,
                  plans : LivePlans]
    /\ InitSession

NextLive ==
    \/ NextStream
    \/ ObserveRaise

\* the positions of the agent-loop task
LoopPositions ==
    {"created", "loop", "awaitPlan", "awaitCritic", "exec", "awaitTool",
     "awaitSwitch", "obs", "awaitVerify", "awaitBatch", "batchObs", "done"}

\* the agent-loop task moves on from where it is: it runs on when it is not
\* suspended, every LLM call (planner, critic, verifier) and every tool
\* call returns, and asyncio.wait_for ends the wait for the batch at the
\* deadline at the latest.  Every step of the loop changes pc and only
\* steps of the loop do.
LoopStep ==
    /\ pc # "done"
    /\ pc' \in LoopPositions \ {pc}

\* the event loop runs the put scheduled by SSEManager.cancel
CancelPutStep ==
    /\ AtSuspension
    /\ pending_puts > 0
    /\ pending_puts' = pending_puts - 1

\* the event loop resumes the stream generator when an item is in the queue
StreamStep ==
    /\ AtSuspension
    /\ ~ stream_done
    /\ read < Len(channel)
    /\ read' = read + 1

\* a cancel request and a 30 s silence are not bound to happen
Fairness ==
    /\ WF_pc(LoopStep)
    /\ WF_tasks(TaskStart)
    /\ WF_tasks(TaskFinish)
    /\ WF_pending_puts(CancelPutStep)
    /\ WF_read(StreamStep)

SpecLive == InitLive /\ [][NextLive]_vars /\ Fairness

\* a session whose plans name a directory inside or outside the sandbox
SandboxPlans == {1, 16}

InitSandbox ==
    /\ input \in [max_steps : {MaxSteps}, destructive : BOOLEAN,
                  plans : {SandboxPlans}]
    /\ InitSession

SpecSandbox == InitSandbox /\ [][NextLoop]_vars

\* the batch path up to the dispatch of the tasks and its report to the
\* loop, for batches of 2, 3, 10 and 11 tasks; the worker threads are not
\* followed here (the deadline of the batch expires before one starts)
BatchPlans == {7, 8, 9, 10, 11, 12, 13}

InitBatch ==
    /\ input \in [max_steps : {MaxSteps}, destructive : BOOLEAN,
                  plans : {BatchPlans}]
    /\ InitSession

NextBatch ==
    \/ BeginLoop
    \/ LoopTop
    \/ PlanReturn
    \/ CriticReturn
    \/ ExecBatch
    \/ BatchTimeout
    \/ BatchObserve
    \/ Cancel
    \/ CancelPut

SpecBatch == InitBatch /\ [][NextBatch]_vars

\* ------------------------------------------- SessionState called directly
\* Any sequence of add_observation, add_fact and update_confidence calls on
\* a fresh SessionState.  The k-th distinct observation, fact and confidence
\* value is k, so that an element tells when it was added; add_fact is also
\* called with the empty string, with the newest fact again and with the
\* first fact again (which may have been evicted by then).
otherVars == <<serverVars, pc, step, input, plan, result, tasks, batch_results,
               cancelled, sse_step, pending_puts, cancels, channel, read,
               sent, stream_done, keepalives, active, attempt_set,
               step_ledger, total_steps, no_progress_count,
               strategy_switches, invocations>>

\* the number of the newest element of a sequence of numbered values
Newest(s) == IF s = <<>> THEN 0 ELSE s[Len(s)]

Fact(k) == <<k, "count_files">>

\* the highest step number among the facts held
NewestFact(fl) ==
    IF fl = <<>> THEN 0
    ELSE CHOOSE m \in {fl[i][1] : i \in 1..Len(fl)} :
            \A i \in 1..Len(fl) : fl[i][1] <= m

FactInputs(fl) ==
    {<<>>, Fact(1)}
      \cup (IF fl = <<>> THEN {} ELSE {fl[Len(fl)]})
      \cup (IF NewestFact(fl) < MaxFactCalls THEN {Fact(NewestFact(fl) + 1)}
            ELSE {})

InitState ==
    /\ input = [max_steps |-> MaxSteps, destructive |-> FALSE, plans |-> {1}]
    /\ InitSession

AddObservation ==
    /\ Newest(last_obs) < MaxObsCalls
    /\ last_obs' = add_observation(last_obs, Newest(last_obs) + 1)
    /\ UNCHANGED <<otherVars, facts, confidence_trend>>

AddFact ==
    /\ \E f \in FactInputs(facts) : facts' = add_fact(facts, f)
    /\ UNCHANGED <<otherVars, last_obs, confidence_trend>>

UpdateConfidence ==
    /\ Newest(confidence_trend) < MaxTrendCalls
    /\ confidence_trend' =
          update_confidence(confidence_trend, Newest(confidence_trend) + 1)
    /\ UNCHANGED <<otherVars, last_obs, facts>>

NextState ==
    \/ AddObservation
    \/ AddFact
    \/ UpdateConfidence

SpecState == InitState /\ [][NextState]_vars

\* =====================================================================
\* The server: session registry, planning step, model fallback
\* =====================================================================
\* ----------------------------------------------------- session registry
\* GET /auto/stream up to create_task(agent_loop): the session id is the
\* caller's or a fresh uuid4, and the request's SSEManager is stored under
\* it in active_sessions, over any entry already there
AutoStream ==
    \E r \in Requests : \E sid \in SuppliedIds \cup {UuidOf(r)} :
      /\ requests[r].phase = "none"
      /\ requests' = [requests EXCEPT ![r].phase = "registered",
                                      ![r].sid = sid]
      /\ active_sessions' = [active_sessions EXCEPT ![sid] = r]
      /\ UNCHANGED <<sessionVars, callVars, sessions, state_ledgers,
                     http_response, planning, fallback>>

\* run_enhanced_agent_loop starts: StateManager.get_session returns the
\* SessionState stored under the id, creating one when there is none
GetSession ==
    \E r \in Requests :
      /\ requests[r].phase = "registered"
      /\ LET sid == requests[r].sid
             obj == IF sessions[sid] = 0 THEN r ELSE sessions[sid]
         IN /\ sessions' = [sessions EXCEPT ![sid] = obj]
            /\ requests' = [requests EXCEPT ![r].phase = "running",
                                            ![r].state = obj]
      /\ UNCHANGED <<sessionVars, callVars, active_sessions, state_ledgers,
                     http_response, planning, fallback>>

\* a step of the loop of request r: add_ledger_entry on the SessionState
\* the loop holds
LoopWrite ==
    \E r \in Requests :
      /\ requests[r].phase = "running"
      /\ requests[r].writes < MaxWrites
      /\ state_ledgers' =
           [state_ledgers EXCEPT ![requests[r].state] = Append(@, r)]
      /\ requests' = [requests EXCEPT ![r].writes = @ + 1]
      /\ UNCHANGED <<sessionVars, callVars, active_sessions, sessions,
                     http_response, planning, fallback>>

\* the loop of request r has returned: cleanup() pops the id from
\* active_sessions and deletes the SessionState stored under it
Cleanup ==
    \E r \in Requests :
      /\ requests[r].phase = "running"
      /\ requests' = [requests EXCEPT ![r].phase = "done"]
      /\ active_sessions' = [active_sessions EXCEPT ![requests[r].sid] = 0]
      /\ sessions' = [sessions EXCEPT ![requests[r].sid] = 0]
      /\ UNCHANGED <<sessionVars, callVars, state_ledgers, http_response,
                     planning, fallback>>

\* DELETE /sessions/{id}: for a registered id SSEManager.cancel and the
\* cancelled answer; otherwise HTTPException(404) is raised inside the try
\* block, caught by its except Exception clause and replaced by
\* HTTPException(500)
CancelSession ==
    \E id \in SessionIds \cup {UnknownId} :
      /\ http_response.n < MaxDeletes
      /\ IF id \in SessionIds /\ active_sessions[id] # 0
         THEN /\ requests' =
                   [requests EXCEPT ![active_sessions[id]].cancelled = TRUE]
              /\ http_response' = [n |-> http_response.n + 1, id |-> id,
                                   status |-> 200, cancelled |-> TRUE]
         ELSE /\ http_response' = [n |-> http_response.n + 1, id |-> id,
                                   status |-> 500, cancelled |-> FALSE]
              /\ UNCHANGED requests
      /\ UNCHANGED <<sessionVars, callVars, active_sessions, sessions,
                     state_ledgers, planning, fallback>>

InitServer ==
    /\ input = [max_steps |-> MaxSteps, destructive |-> FALSE, plans |-> {1}]
    /\ InitSession

NextServer ==
    \/ AutoStream
    \/ GetSession
    \/ LoopWrite
    \/ Cleanup
    \/ CancelSession

SpecServer == InitServer /\ [][NextServer]_vars

\* -------------------------------------------------------- planning step
\* validate_plan_json: the number of subgoals of the plan it returns for a
\* plan of n subgoals (two are appended to fewer than 2, more than 7 are cut)
validate_plan_json(n) ==
    IF n < 2 THEN n + 2
    ELSE IF n > 7 THEN 7
    ELSE n

\* numbers of subgoals of the plans built without the LLM
KnowledgeSubgoals == 1
SimpleSubgoals == 3
FallbackChainSubgoals == 1
FallbackSubgoals == 3

\* the first step of a session calls enhanced_planning_step: whether the
\* goal is a knowledge question, whether it is a simple goal, and whether
\* the enhanced planner was loaded
PlanningStart ==
    /\ planning.stage = "idle"
    /\ \E k \in BOOLEAN, g \in BOOLEAN, e \in BOOLEAN :
         planning' = [stage |-> "start", knowledge |-> k, simple |-> g,
                      enhanced |-> e, calls |-> 1, source |-> "none",
                      subgoals |-> 0]
    /\ UNCHANGED <<sessionVars, callVars, active_sessions, sessions, requests,
                   state_ledgers, http_response, fallback>>

\* the plan emitted in the plan event and returned: who made it and the
\* number of its subgoals
Emitted(src, n) ==
    [planning EXCEPT !.stage = "emitted", !.source = src, !.subgoals = n]

\* a knowledge question: create_knowledge_plan is emitted and returned
PlanKnowledge ==
    /\ planning.stage = "start"
    /\ planning.knowledge
    /\ planning' = Emitted("knowledge", KnowledgeSubgoals)
    /\ UNCHANGED <<sessionVars, callVars, active_sessions, sessions, requests,
                   state_ledgers, http_response, fallback>>

\* the confidence create_simple_plan gives its plans: they have no
\* confidence entry and simple_plan.get('confidence', 0) is 0 (in tenths)
SimpleConfidence == 0

\* no knowledge question: the simple plan is emitted when the goal is a
\* simple goal and the confidence of the plan is above 0.8; otherwise it is
\* kept for the final fallback and planning goes on with the enhanced
\* planner when loaded and with the standard planner otherwise
PlanSimple ==
    /\ planning.stage = "start"
    /\ ~ planning.knowledge
    /\ planning' = IF planning.simple /\ SimpleConfidence > 8
                   THEN Emitted("simple", SimpleSubgoals)
                   ELSE [planning EXCEPT !.stage =
                           IF planning.enhanced THEN "enhanced"
                           ELSE "standard"]
    /\ UNCHANGED <<sessionVars, callVars, active_sessions, sessions, requests,
                   state_ledgers, http_response, fallback>>

\* plan_with_chaining: the plan parsed from the LLM answer is returned as
\* it is (n subgoals, none when the key is missing), or the fallback chain
\* plan when the call fails, or an exception leaves for the standard planner
PlanEnhanced ==
    /\ planning.stage = "enhanced"
    /\ \/ \E n \in 0..MaxSubgoals : planning' = Emitted("chain", n)
       \/ planning' = Emitted("chain_fallback", FallbackChainSubgoals)
       \/ planning' = [planning EXCEPT !.stage = "standard"]
    /\ UNCHANGED <<sessionVars, callVars, active_sessions, sessions, requests,
                   state_ledgers, http_response, fallback>>

\* PlanningAgent.plan: the plan parsed from the LLM answer goes through
\* validate_plan_json, or the fallback plan after the repair attempts, or
\* an exception leaves for the final fallback
PlanStandard ==
    /\ planning.stage = "standard"
    /\ \/ \E n \in 0..MaxSubgoals :
            planning' = Emitted("standard", validate_plan_json(n))
       \/ planning' = Emitted("fallback", FallbackSubgoals)
       \/ planning' = [planning EXCEPT !.stage = "final_fallback"]
    /\ UNCHANGED <<sessionVars, callVars, active_sessions, sessions, requests,
                   state_ledgers, http_response, fallback>>

\* the final fallback: the simple plan made at the start
PlanFinalFallback ==
    /\ planning.stage = "final_fallback"
    /\ planning' = Emitted("simple", SimpleSubgoals)
    /\ UNCHANGED <<sessionVars, callVars, active_sessions, sessions, requests,
                   state_ledgers, http_response, fallback>>

\* the next step of the session calls enhanced_planning_step again
PlanningAgain ==
    /\ planning.stage = "emitted"
    /\ planning.calls < MaxSteps
    /\ planning' = [planning EXCEPT !.stage = "start", !.calls = @ + 1,
                                    !.source = "none", !.subgoals = 0]
    /\ UNCHANGED <<sessionVars, callVars, active_sessions, sessions, requests,
                   state_ledgers, http_response, fallback>>

NextPlanning ==
    \/ PlanningStart
    \/ PlanKnowledge
    \/ PlanSimple
    \/ PlanEnhanced
    \/ PlanStandard
    \/ PlanFinalFallback
    \/ PlanningAgain

SpecPlanning == InitServer /\ [][NextPlanning]_vars

\* -------------------------------------------------------- model fallback
\* how a model of the chain behaves in one call: its health check fails,
\* it answers 200, it answers another status, or the request raises
ModelBehaviours == {"unhealthy", "ok", "http_error", "exception"}

\* the default of the max_retries parameter of call_with_fallback
MaxRetries == 3

Chains == UNION {[1..n -> ModelBehaviours] : n \in 1..MaxChain}

\* call_with_fallback is called on a chain [primary] + fallbacks
CallWithFallback ==
    /\ fallback.stage = "idle"
    /\ \E c \in Chains :
         fallback' = [stage |-> "walking", chain |-> c, attempt |-> 0,
                      success |-> FALSE, model_used |-> 0,
                      health_cache |-> [i \in 1..Len(c) |-> "none"]]
    /\ UNCHANGED <<sessionVars, callVars, active_sessions, sessions, requests,
                   state_ledgers, http_response, planning>>

\* what the health cache holds for a model after the iteration of the for
\* loop on it: health_check stores its own result (no entry is cached when
\* the call starts), and only the except branch of the request stores
\* unhealthy over it; a status other than 200 just sets last_error
health_after(behaviour) ==
    CASE behaviour = "unhealthy" -> "unhealthy"
      [] behaviour = "exception" -> "unhealthy"
      [] OTHER -> "healthy"

\* one iteration of the for loop of call_with_fallback (attempt counts the
\* models enumerated so far), or its end
FallbackAttempt ==
    /\ fallback.stage = "walking"
    /\ LET a == fallback.attempt
       IN IF a >= Len(fallback.chain) \/ a >= MaxRetries
          THEN fallback' = [fallback EXCEPT !.stage = "returned"]
          ELSE IF fallback.chain[a + 1] = "ok"
          THEN fallback' = [fallback EXCEPT !.stage = "returned",
                                            !.success = TRUE,
                                            !.model_used = a + 1,
                                            !.health_cache[a + 1] = "healthy"]
          ELSE fallback' = [fallback EXCEPT
                              !.attempt = a + 1,
                              !.health_cache[a + 1] =
                                  health_after(fallback.chain[a + 1])]
    /\ UNCHANGED <<sessionVars, callVars, active_sessions, sessions, requests,
                   state_ledgers, http_response, planning>>

NextFallback ==
    \/ CallWithFallback
    \/ FallbackAttempt

SpecFallback == InitServer /\ [][NextFallback]_vars

\* ------------------------------------------------- attempt set alone
\* the calls made on the attempt set: two actions, and for each the same
\* directory in two spellings and another directory
MarkActions == {"count_files", "list_files"}
MarkArgs == { [dir |-> "~/a", limit |-> 50],
              [dir |-> "/home/u/a", limit |-> 50],
              [dir |-> "~/b", limit |-> 50] }

\* SessionState.mark_attempt(action, args, success) is called
MarkAttempt ==
    /\ Len(marks) < MaxMarks
    /\ \E a \in MarkActions, A \in MarkArgs, ok \in BOOLEAN :
         /\ attempt_set' = mark_attempt(attempt_set, a, A, ok)
         /\ marks' = Append(marks, [key |-> canonicalize_args(a, A),
                                    success |-> ok])
    /\ UNCHANGED <<pc, step, input, plan, result, tasks, batch_results,
                   cancelled, sse_step, pending_puts, cancels, channel, read,
                   sent, stream_done, keepalives, active, step_ledger,
                   total_steps, no_progress_count, strategy_switches,
                   last_obs, facts, confidence_trend, invocations>>
    /\ UNCHANGED <<active_sessions, sessions, requests, state_ledgers,
                   http_response, planning, fallback, canon, critic>>

NextAttempts == MarkAttempt

SpecAttempts == InitServer /\ [][NextAttempts]_vars

\* ------------------------------------------ canonicalize_args alone
\* Python values an argument can have, as parsed from JSON: each is named
\* by its type and its literal
DirValues == {"str:~/a", "str:/home/u/a", "str:a", "str:~/b"}
LimitValues == {"int:50", "float:50.0", "str:50", "int:1", "bool:True"}

\* Path(value).expanduser().resolve() for a str value, with home and
\* working directory /home/u
ResolvePath(v) ==
    CASE v = "str:~/a" -> "str:/home/u/a"
      [] v = "str:a" -> "str:/home/u/a"
      [] v = "str:~/b" -> "str:/home/u/b"
      [] OTHER -> v

\* json.dumps of a value
json_dumps(v) ==
    CASE v = "int:50" -> "50"
      [] v = "float:50.0" -> "50.0"
      [] v = "str:50" -> "'50'"
      [] v = "int:1" -> "1"
      [] v = "bool:True" -> "true"
      [] v = "str:/home/u/a" -> "'/home/u/a'"
      [] v = "str:/home/u/b" -> "'/home/u/b'"
      [] OTHER -> v

\* an argument mapping as a dict in insertion order: a sequence of
\* <<key, value>> pairs with distinct keys
ArgItems ==
    UNION { { <<(<<"dir", d>>), (<<"limit", l>>)>>,
              <<(<<"limit", l>>), (<<"dir", d>>)>> } :
            d \in DirValues, l \in LimitValues }

\* SessionState.canonicalize_args on such a dict: values of dir, path and
\* file keys that are str are resolved, the others are kept; json.dumps
\* with sort_keys serialises the pairs in key order (here: as the set of
\* pairs); the sha1 digest is taken as injective; the key is the action
\* followed by the digest
canonicalize_items(action, items) ==
    <<action,
      { <<items[i][1],
          json_dumps(IF items[i][1] \in {"dir", "path", "file"}
                     THEN ResolvePath(items[i][2]) ELSE items[i][2])>> :
        i \in 1..Len(items) }>>

\* canonicalize_args is called on two mappings
Canonicalize ==
    /\ canon.stage = "idle"
    /\ \E a \in MarkActions, b \in MarkActions, A \in ArgItems,
          B \in ArgItems :
         canon' = [stage |-> "done", a |-> a, A |-> A, b |-> b, B |-> B,
                   key_a |-> canonicalize_items(a, A),
                   key_b |-> canonicalize_items(b, B)]
    /\ UNCHANGED <<sessionVars, active_sessions, sessions, requests,
                   state_ledgers, http_response, planning, fallback, marks,
                   critic>>

NextCanon == Canonicalize

SpecCanon == InitServer /\ [][NextCanon]_vars

\* ------------------------------------------------------ critic review
\* variant of fail_open that rejects the plan
fail_closed(note) ==
    [approved |-> FALSE, changes |-> "some", reasoning |-> note]

\* the critic result when the critic could not review the plan
fail_open(note) ==
    [approved |-> TRUE, changes |-> "empty", reasoning |-> note]

\* simple_critic_review: an unknown tool is rejected, anything else approved
simple_critic_review(p) ==
    IF ~ get_tool(p.next_action)
    THEN [approved |-> FALSE, changes |-> "some", reasoning |-> "unavailable"]
    ELSE [approved |-> TRUE, changes |-> "empty", reasoning |-> "approved"]

\* the loop reaches the critic with plan i of Plans; the enhanced critic is
\* used when the enhanced planner was loaded
CriticStart ==
    /\ critic.stage = "idle"
    /\ \E i \in 1..Len(Plans), e \in BOOLEAN :
         critic' = [stage |-> "called", plan |-> i, enhanced |-> e,
                    outcome |-> "none", result |-> fail_open("none")]
    /\ UNCHANGED <<sessionVars, active_sessions, sessions, requests,
                   state_ledgers, http_response, planning, fallback, marks,
                   canon>>

Reviewed(how, res) ==
    [critic EXCEPT !.stage = "reviewed", !.outcome = how, !.result = res]

\* EnhancedPlanningAgent.critique: call_with_fallback answers success=false,
\* or the processing of the answer raises, or the answer is parsed and its
\* missing fields are filled in
Critique ==
    /\ critic.stage = "called"
    /\ critic.enhanced
    /\ \/ critic' = Reviewed("call_failed", fail_open("Critic unavailable"))
       \/ critic' = Reviewed("raised", fail_open("Critic error"))
       \/ \E a \in {"true", "false", "missing"},
             c \in {"empty", "some", "missing"},
             r \in {"given", "missing"} :
            critic' = Reviewed("answered",
               [approved |-> a # "false",
                changes |-> IF c = "missing" THEN "empty" ELSE c,
                reasoning |-> IF r = "missing" THEN "No reasoning provided"
                              ELSE r])
    /\ UNCHANGED <<sessionVars, active_sessions, sessions, requests,
                   state_ledgers, http_response, planning, fallback, marks,
                   canon>>

\* the rule-based critic, used without the enhanced planner
SimpleCritic ==
    /\ critic.stage = "called"
    /\ ~ critic.enhanced
    /\ critic' = Reviewed("rules", simple_critic_review(Plans[critic.plan]))
    /\ UNCHANGED <<sessionVars, active_sessions, sessions, requests,
                   state_ledgers, http_response, planning, fallback, marks,
                   canon>>

\* the critic call raises into the loop (outside the try block of
\* critique): the except clause of the loop builds the result itself
CriticRaisesInLoop ==
    /\ critic.stage = "called"
    /\ critic' = Reviewed("raised_in_loop", fail_open("Critic bypassed"))
    /\ UNCHANGED <<sessionVars, active_sessions, sessions, requests,
                   state_ledgers, http_response, planning, fallback, marks,
                   canon>>

\* the loop after the critic: the result is emitted, changes are only
\* logged, and the plan goes to execution as it was
CriticDone ==
    /\ critic.stage = "reviewed"
    /\ critic' = [critic EXCEPT !.stage = "exec"]
    /\ UNCHANGED <<sessionVars, active_sessions, sessions, requests,
                   state_ledgers, http_response, planning, fallback, marks,
                   canon>>

NextCritic ==
    \/ CriticStart
    \/ Critique
    \/ SimpleCritic
    \/ CriticRaisesInLoop
    \/ CriticDone

SpecCritic == InitServer /\ [][NextCritic]_vars

\* =====================================================================
\* Properties
\* =====================================================================
Last(s) == s[Len(s)]

\* the indexes of the events the current step puts on the queue
NewEventIdx == (Len(channel) + 1)..Len(channel')

\* the indexes of the tool calls the current step starts
NewInvocationIdx == (Len(invocations) + 1)..Len(invocations')

LedgerAppended == Len(step_ledger') = Len(step_ledger) + 1

InvKey(i) == canonicalize_args(invocations[i].tool, invocations[i].args)

Confirmed(a) == "confirm" \in DOMAIN a /\ a.confirm = TRUE

PlanIsBatch == plan.is_list /\ Len(plan.args) > 1

\* the current plan is a delete_files call, or a batch with such a task,
\* whose confirm is false or missing
PlanHasUnconfirmedDelete ==
    /\ plan.next_action = "delete_files"
    /\ IF plan.is_list
       THEN \E i \in 1..Len(plan.args) : ~ Confirmed(plan.args[i])
       ELSE ~ Confirmed(plan.args)

\* ---------------------------------------------------------------- C1
\* C1 (as claimed): while args_key(a, A) is in attempt_set no exec event is
\* emitted and no tool is invoked for (a, A), and a tool is invoked again
\* with the same canonical args only if the previous attempt with those
\* args succeeded.
C1_DuplicateGuard ==
    [][ /\ \A i \in NewEventIdx :
             channel'[i].event = "exec" =>
               canonicalize_args(channel'[i].tool, channel'[i].args)
                 \notin attempt_set
        /\ \A j \in NewInvocationIdx :
             /\ canonicalize_args(invocations'[j].tool, invocations'[j].args)
                  \notin attempt_set
             /\ \A i \in 1..Len(invocations) :
                  ( /\ InvKey(i) = canonicalize_args(invocations'[j].tool,
                                                     invocations'[j].args)
                    /\ \A k \in (i + 1)..Len(invocations) : InvKey(k) # InvKey(i) )
                  => invocations[i].result = "ok"
      ]_vars

\* ---------------------------------------------------------------- C2
NoUnconfirmedDeleteInvoked ==
    \A i \in 1..Len(invocations) :
       invocations[i].tool = "delete_files" => Confirmed(invocations[i].args)

NoDeleteInvoked ==
    \A i \in 1..Len(invocations) : invocations[i].tool # "delete_files"

WithinPolicy(tool, args) ==
    /\ (tool \in {"list_files", "count_files", "count_dirs"}
        /\ "limit" \in DOMAIN args) => args.limit <= MaxLimit
    /\ (tool = "read_file" /\ "length" \in DOMAIN args)
          => args.length <= MaxLength
    /\ tool = "web_get" =>
          /\ "url" \in DOMAIN args
          /\ args.url.scheme \in {"http", "https"}
          /\ args.url.host \notin BlockedDomains

\* C4 (as claimed): every tool invocation, single or batch, is made with
\* arguments that passed validate_tool_args: limit and length within the
\* policy maxima, a web_get url with scheme http/https and no blocked host.
C4_InvokedArgsValidated ==
    \A i \in 1..Len(invocations) :
       WithinPolicy(invocations[i].tool, invocations[i].args)

\* ---------------------------------------------------------------- C5
\* positions in which the loop has started a planner call, a critic call,
\* a tool invocation (single or batch) or a verification
SubstepStarted ==
    {"awaitPlan", "awaitCritic", "awaitTool", "awaitBatch", "awaitVerify",
     "awaitSwitch"}

\* C5 (as claimed): once the cancel flag is set the loop stops at the next
\* substep boundary: it starts no further planning, critic call, tool
\* invocation or verification.
C5_CancelStopsLoop ==
    [][ cancelled => (pc' = pc \/ pc' \notin SubstepStarted) ]_vars

\* ---------------------------------------------------------------- C6
\* C6 (as claimed): after the cancel flag is set the producer writes no
\* event other than cancel to the channel, thinking and reasoning included.
C6_NoWriteAfterCancelFlag ==
    [][ cancelled => \A i \in NewEventIdx : channel'[i].event = "cancel" ]_vars

\* ---------------------------------------------------------------- C7
\* the events that end a stream
TerminalEvents == {"final", "cancel", "error"}

HasTerminal(s) == \E i \in 1..Len(s) : s[i].event \in TerminalEvents

\* C7 (as claimed): after a terminal event (final, cancel or error) has
\* been written to the channel nothing more is written to it.
C7_NoWriteAfterTerminal ==
    [][ HasTerminal(channel) => channel' = channel ]_vars

\* ---------------------------------------------------------------- C8
\* the events delivered to the client, keepalives left out
Delivered == SelectSeq(sent, LAMBDA e : e.event # "keepalive")

\* C8: the stream delivers at most one terminal event and nothing after it;
\* a stream that has ended has delivered one; and an agent loop that has
\* finished has left a terminal event on the channel (or the put of a
\* cancel event is still scheduled), so the stream can end.
C8_OneTerminalLast ==
    /\ \A i \in 1..Len(sent) :
          sent[i].event \in TerminalEvents => i = Len(sent)
    /\ stream_done => (sent # <<>> /\ Last(sent).event \in TerminalEvents)
    /\ pc = "done" => (HasTerminal(channel) \/ pending_puts > 0)

\* the stream has ended on a cancel event while the producer wrote further
\* events behind it
C8_Witness ==
    /\ stream_done
    /\ Last(sent).event = "cancel"
    /\ read < Len(channel)
    /\ pc = "done"

\* ---------------------------------------------------------------- C9
StepEventOrder == <<"plan", "critic", "exec", "obs", "hyp", "bb", "met">>

IsStepEvent(e) == \E k \in 1..Len(StepEventOrder) : e.event = StepEventOrder[k]

\* the step events of step n on the channel, in order
StepEventsOf(n) ==
    SelectSeq(channel, LAMBDA e : IsStepEvent(e) /\ e.n = n)

\* C9 (as claimed): for every step N the plan, critic, exec, obs, hyp, bb
\* and met events of step N form a prefix of that list, each at most once,
\* and no such event of a later step comes before one of an earlier step.
C9_StepEventsArePrefix ==
    /\ \A n \in 1..step :
          /\ Len(StepEventsOf(n)) <= Len(StepEventOrder)
          /\ \A k \in 1..Len(StepEventsOf(n)) :
                StepEventsOf(n)[k].event = StepEventOrder[k]
    /\ \A i, j \in 1..Len(channel) :
          (i < j /\ IsStepEvent(channel[i]) /\ IsStepEvent(channel[j]))
             => channel[i].n <= channel[j].n

\* ---------------------------------------------------------------- C10
\* how many events named ev of step n come before position j of the channel
CountBefore(ev, n, j) ==
    Cardinality({i \in 1..(j - 1) : channel[i].event = ev /\ channel[i].n = n})

\* C10 (as claimed): every obs event of a step is preceded by exactly one
\* exec event of that step, and every exec event by exactly one plan event
\* of that step, also for blocked tools and on the batch path.
C10_ObsAfterOneExec ==
    \A j \in 1..Len(channel) :
       /\ channel[j].event = "obs"
            => CountBefore("exec", channel[j].n, j) = 1
       /\ channel[j].event = "exec"
            => CountBefore("plan", channel[j].n, j) = 1

\* ---------------------------------------------------------------- C11
\* C11: the stream delivers the events in the order the producer put them
\* on the queue: what the client has received, keepalives left out, is
\* exactly the first `read` events of the channel (none reordered,
\* duplicated or lost), a stream that has ended has delivered every event up
\* to and including the first terminal one, and a keepalive is never
\* delivered after the terminal event.
C11_DeliveredInOrder ==
    /\ read <= Len(channel)
    /\ Delivered = SubSeq(channel, 1, read)
    /\ stream_done =>
          /\ read >= 1
          /\ channel[read].event \in TerminalEvents
          /\ \A i \in 1..(read - 1) : channel[i].event \notin TerminalEvents
          /\ Last(sent).event # "keepalive"

\* a stream that ended on the final event of a session, with a keepalive
\* delivered between two events of the producer
C11_Witness ==
    /\ stream_done
    /\ Last(sent).event = "final"
    /\ read > 6
    /\ \E i \in 2..(Len(sent) - 1) : sent[i].event = "keepalive"

\* ---------------------------------------------------------------- C12
HasFinal(s) == \E i \in 1..Len(s) : s[i].event = "final"

\* C12: the loop never starts more than max_steps steps and the ledger
\* never holds more than max_steps entries; when the while loop ends because
\* the budget is used up (no verification has finished the session, and the
\* session is not cancelled, in which case emit drops the event), the last
\* event written is final with success=false and confidence=0.5.
C12_StepBudget ==
    [][ /\ step' <= input.max_steps
        /\ Len(step_ledger') <= input.max_steps
        /\ (pc = "loop" /\ step = input.max_steps /\ pc' = "done"
              /\ ~ cancelled)
             => /\ ~ HasFinal(channel)
                /\ Last(channel').event = "final"
                /\ Last(channel').success = FALSE
                /\ Last(channel').confidence = 50
      ]_vars

\* a session that used every step of its budget, recorded each of them and
\* ended with the budget-exhausted final event
C12_Witness ==
    /\ pc = "done"
    /\ ~ cancelled
    /\ step = input.max_steps
    /\ Len(step_ledger) = input.max_steps
    /\ Last(channel).event = "final"
    /\ Last(channel).success = FALSE
    /\ Last(channel).confidence = 50

\* ---------------------------------------------------------------- C13
\* the critic event of step n on the channel says approved=false
Rejected(n) ==
    \E k \in 1..Len(channel) :
       /\ channel[k].event = "critic"
       /\ channel[k].n = n
       /\ ~ channel[k].approved

\* C13 (as claimed): a plan the critic rejected is not executed in that
\* step: after a critic event with approved=false no exec event is emitted
\* and no tool is invoked for that step.
C13_RejectedPlanNotExecuted ==
    [][ /\ \A i \in NewEventIdx :
             channel'[i].event = "exec" => ~ Rejected(channel'[i].n)
        /\ \A j \in NewInvocationIdx : ~ Rejected(invocations'[j].n)
      ]_vars

\* ---------------------------------------------------------------- C14
\* the number of strategy switches the progress guard of the claim makes
\* over ledger l from entry i on: run counts the consecutive entries that
\* are not ok, the third of them triggers a switch and resets the count
RECURSIVE GuardSwitches(_, _, _)
GuardSwitches(l, i, run) ==
    IF i > Len(l) THEN 0
    ELSE IF l[i].status = "ok" THEN GuardSwitches(l, i + 1, 0)
    ELSE IF run + 1 >= SwitchThreshold THEN 1 + GuardSwitches(l, i + 1, 0)
    ELSE GuardSwitches(l, i + 1, run + 1)

\* C14 (as claimed): a ledger entry with status ok resets no_progress_count
\* to 0, and after 3 consecutive steps whose ledger status is not ok the
\* strategy switch has been made (strategy_switches incremented) before the
\* next plan event is emitted.
C14_ProgressGuard ==
    [][ /\ (LedgerAppended /\ Last(step_ledger').status = "ok")
             => no_progress_count' = 0
        /\ (\E i \in NewEventIdx : channel'[i].event = "plan")
             => strategy_switches >= GuardSwitches(step_ledger, 1, 0)
      ]_vars

\* ---------------------------------------------------------------- C15
\* the failed invocations of tool a in the steps before step n
FailedAttempts(a, n) ==
    {i \in 1..Len(invocations) :
        /\ invocations[i].tool = a
        /\ invocations[i].n < n
        /\ invocations[i].result = "error"}

\* C15 (as claimed): every action has a retry counter of its own, 1 by
\* default, which the failed attempts of that action use up; once it is used
\* up (the first attempt and the one retry have failed) a further attempt of
\* that action is not invoked and its step yields duplicate_blocked.
C15_RetryBudget ==
    /\ \A j \in 1..Len(invocations) :
          Cardinality(FailedAttempts(invocations[j].tool, invocations[j].n))
             <= RetryBudget
    /\ \A k \in 1..Len(step_ledger) :
          Cardinality(FailedAttempts(step_ledger[k].action, step_ledger[k].step))
             > RetryBudget
          => step_ledger[k].error_class = "duplicate_blocked"

\* ---------------------------------------------------------------- C16
\* C16 (as claimed): when the duplicate guard short-circuits a planned step
\* (execute_single_tool returned duplicate_blocked), the ledger entry
\* appended for that step has status duplicate_blocked.
C16_DuplicateStatus ==
    [][ (LedgerAppended /\ ~ PlanIsBatch
           /\ result.error_class = "duplicate_blocked")
          => Last(step_ledger').status = "duplicate_blocked"
      ]_vars

\* ---------------------------------------------------------------- C17
\* C17: in every state len(step_ledger) = total_steps, and the ledger is
\* append-only: a step leaves the entries it already holds in place and
\* unchanged.
C17_LedgerAppendOnly ==
    [][ /\ Len(step_ledger) = total_steps
        /\ Len(step_ledger') = total_steps'
        /\ Len(step_ledger') >= Len(step_ledger)
        /\ SubSeq(step_ledger', 1, Len(step_ledger)) = step_ledger
      ]_vars

\* a ledger with the entry of a single call followed by the entry of a batch
C17_Witness ==
    /\ Len(step_ledger) = 2
    /\ total_steps = 2
    /\ ~ step_ledger[1].batch
    /\ step_ledger[2].batch

\* ---------------------------------------------------------------- C18
NoDuplicate(s) == \A i, j \in 1..Len(s) : s[i] = s[j] => i = j

\* new is old, or old with one element added at the end, the oldest
\* element evicted when old was already cap long
AddedFifo(old, new, cap) ==
    \/ new = old
    \/ /\ new # <<>>
       /\ SubSeq(new, 1, Len(new) - 1) =
            IF Len(old) < cap THEN old ELSE SubSeq(old, 2, Len(old))

\* C18: after any sequence of add_observation, add_fact and
\* update_confidence calls last_obs holds at most 8 elements, facts at most
\* 50 and confidence_trend at most 10; each call keeps the elements held in
\* their order and adds the new one at the end, evicting the oldest one when
\* the cap is reached; and facts never holds a string twice.
C18_BoundedFifo ==
    [][ /\ Len(last_obs') <= 8
        /\ Len(facts') <= 50
        /\ Len(confidence_trend') <= 10
        /\ NoDuplicate(facts')
        /\ AddedFifo(last_obs, last_obs', 8)
        /\ AddedFifo(facts, facts', 50)
        /\ AddedFifo(confidence_trend, confidence_trend', 10)
      ]_vars

\* the three lists are full and each has evicted its oldest elements
C18_Witness ==
    /\ Len(last_obs) = 8 /\ last_obs[1] > 1
    /\ Len(facts) = 50 /\ facts[1][1] > 1
    /\ Len(confidence_trend) = 10 /\ confidence_trend[1] > 1

\* ---------------------------------------------------------------- C19
PathArgNames == {"path", "dir", "file"}

\* C19: a batch whose tasks are handed to the worker pool has at most 10
\* tasks, at most one destructive task, pairwise distinct args_keys and
\* pairwise distinct path argument values (as given in the plan); a batch of
\* 10 otherwise valid tasks is dispatched whole and a batch of 11 is
\* rejected with batch_validation_error.
C19_DispatchedBatchSafe ==
    [][ /\ tasks' # <<>> =>
             /\ Len(tasks') <= 10
             /\ Cardinality({i \in 1..Len(tasks') :
                               tasks'[i].tool_name = "delete_files"}) <= 1
             /\ \A i, j \in 1..Len(tasks') :
                   i # j =>
                     /\ tasks'[i].args_key # tasks'[j].args_key
                     /\ \A k, l \in PathArgNames :
                           (k \in DOMAIN tasks'[i].args
                              /\ l \in DOMAIN tasks'[j].args)
                           => tasks'[i].args[k] # tasks'[j].args[l]
        /\ (pc = "exec" /\ PlanIsBatch /\ pc' # pc) =>
             /\ Len(plan.args) = 11 =>
                   /\ tasks' = <<>>
                   /\ batch_results'[1].error_class = "batch_validation_error"
             /\ plan.args = BatchOf(10) => Len(tasks') = 10
      ]_vars

\* a batch of 10 tasks has been dispatched
C19_Witness ==
    /\ pc = "awaitBatch"
    /\ Len(tasks) = 10

\* ---------------------------------------------------------------- C20
\* execute_batch reported a failed batch pre-validation to the loop
BatchRejected ==
    /\ pc = "batchObs"
    /\ tasks = <<>>
    /\ batch_results # <<>>
    /\ batch_results[1].error_class = "batch_validation_error"

\* C20 (as claimed): when the pre-validation of a batch fails no task of
\* the batch is invoked, the step is recorded as an error with error_class
\* batch_validation_error, and the session continues afterwards.
C20_BatchValidationFailure ==
    [][ (BatchRejected /\ LedgerAppended) =>
          /\ \A i \in 1..Len(invocations') : invocations'[i].n # step
          /\ Last(step_ledger').status = "error"
          /\ Last(step_ledger').error_class = "batch_validation_error"
          /\ pc' # "done"
      ]_vars

\* ---------------------------------------------------------------- C21
\* the executor has returned its results for the dispatched batch
BatchReturned == pc = "batchObs" /\ tasks # <<>>

\* C21: the results ParallelExecutor.execute_batch returns are ordered by
\* task index: there is one result per task, the i-th result carries the
\* index of the i-th task and is that task's own outcome (its rejection in
\* pre-validation, the outcome of its tool call, or timeout), in whatever
\* order the workers ran.
C21_ResultsInInputOrder ==
    BatchReturned =>
      /\ Len(batch_results) = Len(tasks)
      /\ \A i \in 1..Len(tasks) :
            /\ batch_results[i].idx = i - 1
            /\ batch_results[i].idx = tasks[i].idx
            /\ batch_results[i].error_class \in {"duplicate_blocked", "unknown_tool"}
                  <=> tasks[i].st \in {"duplicate_blocked", "unknown_tool"}
            /\ batch_results[i].success => invocations[tasks[i].inv].result = "ok"
            /\ batch_results[i].error_class = "execution_error"
                  => invocations[tasks[i].inv].result = "error"

\* the second task was started before the first, the first succeeded and
\* the second failed, and the results came back in task order
C21_Witness ==
    /\ BatchReturned
    /\ Len(tasks) = 2
    /\ tasks[1].inv > tasks[2].inv
    /\ tasks[2].inv > 0
    /\ batch_results[1].success
    /\ batch_results[2].error_class = "execution_error"

\* ---------------------------------------------------------------- C22
\* the events of kind ev among the new events of the current step
NewEvents(ev) == {i \in NewEventIdx : channel'[i].event = ev}

\* C22 (as claimed): a step on the batch path, after its exec events and
\* the execution of the tasks, emits exactly one batched obs event, appends
\* one ledger entry with status ok or error, and then continues with hyp,
\* bb, met and the verification of that step.
C22_BatchStepContinues ==
    [][ (pc = "batchObs" /\ pc' # pc /\ ~ cancelled) =>
          /\ Cardinality(NewEvents("obs")) = 1
          /\ \A i \in NewEvents("obs") : channel'[i].batch
          /\ LedgerAppended
          /\ Last(step_ledger').status \in {"ok", "error"}
          /\ Cardinality(NewEvents("hyp")) = 1
          /\ Cardinality(NewEvents("bb")) = 1
          /\ Cardinality(NewEvents("met")) = 1
          /\ pc' = "awaitVerify"
      ]_vars

\* ---------------------------------------------------------------- C23
\* the current step is the completion of a tool call in a worker thread
WorkerStep ==
    /\ Len(tasks') = Len(tasks)
    /\ \E i \in 1..Len(tasks) :
          tasks[i].st = "running" /\ tasks'[i].st \in {"ok", "error"}

\* C23 (as claimed): every mutation of a session's attempt set, ledger,
\* observations and confidence trend is made by the session's own loop
\* task; a step of a worker thread leaves them all unchanged.
C23_OnlyLoopTaskMutatesState ==
    [][ WorkerStep =>
          UNCHANGED <<attempt_set, step_ledger, last_obs, facts,
                      confidence_trend>> ]_vars

\* ---------------------------------------------------------------- C25
\* C25 (as claimed): a tool error on the single path ends only that tool
\* call: the step that reports it appends one ledger entry with status
\* error and the error class, does not finish the session, and goes on to
\* the verification of the step.
C25_ToolErrorEndsOnlyTheCall ==
    [][ (pc = "obs" /\ pc' # pc /\ result.error_class # "none") =>
          /\ LedgerAppended
          /\ Last(step_ledger').status = "error"
          /\ Last(step_ledger').error_class = result.error_class
          /\ NewEvents("final") = {}
          /\ pc' = "awaitVerify"
      ]_vars

\* ---------------------------------------------------------------- C26
\* the current step is one in which an exception raised by the loop's own
\* code reaches the except clause of run_enhanced_agent_loop: mark_attempt
\* on the args list of a batch
LoopRaises == pc = "batchObs" /\ pc' = "done"

\* C26 (as claimed): an exception raised inside the loop itself ends the
\* session with an error event and not with a final event.
C26_LoopExceptionEmitsError ==
    [][ (LoopRaises /\ ~ cancelled) =>
          /\ NewEvents("error") # {}
          /\ NewEvents("final") = {}
      ]_vars

\* ---------------------------------------------------------------- C30
\* C30 (as claimed): a session whose goal is a knowledge question invokes
\* no tool and emits no exec event.
C30_ConversationalBypassesTools ==
    /\ invocations = <<>>
    /\ \A i \in 1..Len(channel) : channel[i].event # "exec"

\* ---------------------------------------------------------------- C24
\* C24 (as claimed): no two requests running at the same time read or write
\* the same SessionState, also when the caller supplies the session id.
C24_NoSharedSessionState ==
    \A r1, r2 \in Requests :
       (r1 # r2 /\ requests[r1].phase = "running"
                /\ requests[r2].phase = "running")
          => requests[r1].state # requests[r2].state

\* ---------------------------------------------------------------- C29
\* C29 (as claimed): DELETE /sessions/{id} for an id that is not an active
\* session answers 404 and changes no session's state; for an active id it
\* sets the cancel flag of that session and answers cancelled.
C29_DeleteUnknownIs404 ==
    [][ http_response'.n # http_response.n =>
          LET id == http_response'.id
          IN IF id \in SessionIds /\ active_sessions[id] # 0
             THEN /\ http_response'.status = 200
                  /\ http_response'.cancelled
                  /\ requests'[active_sessions[id]].cancelled
             ELSE /\ http_response'.status = 404
                  /\ UNCHANGED <<requests, active_sessions, sessions,
                                 state_ledgers>>
      ]_vars

\* ---------------------------------------------------------------- C27
\* C27 (as claimed): every plan the planning step returns and emits in a
\* plan event has between 2 and 7 subgoals.
C27_SubgoalCount ==
    planning.stage = "emitted" => planning.subgoals \in 2..7

\* ---------------------------------------------------------------- C28
\* the models of the chain that would answer with a success status
Answering(c) == {i \in 1..Len(c) : c[i] = "ok"}

\* C28 (as claimed): call_with_fallback walks the whole chain whatever its
\* length: it fails only when no model of the chain is healthy and answers
\* with a success status, and otherwise returns the first such model.
C28_WalksWholeChain ==
    fallback.stage = "returned" =>
       IF Answering(fallback.chain) = {}
       THEN ~ fallback.success
       ELSE /\ fallback.success
            /\ \A i \in Answering(fallback.chain) : fallback.model_used <= i
            /\ fallback.model_used \in Answering(fallback.chain)

\* ---------------------------------------------------------------- C37
\* the current step is the return of execute_batch to the loop
BatchReturns == pc = "awaitBatch" /\ pc' = "batchObs"

\* C37 (as claimed): when execute_batch returns, a task that had completed
\* by then is reported with its own success or error result, and only
\* tasks that had not completed are reported with error_class timeout.
C37_TimeoutOnlyForIncomplete ==
    [][ BatchReturns =>
          \A i \in 1..Len(tasks) :
             /\ tasks[i].st \in {"ok", "error"}
                   => batch_results'[i] = TaskResult(tasks[i])
             /\ batch_results'[i].error_class = "timeout"
                   => tasks[i].st \in {"queued", "running"}
      ]_vars

\* ---------------------------------------------------------------- C40
\* C40 (as claimed): while the agent loop of a request is running, its own
\* SSEManager is the one registered in active_sessions under its session
\* id and its SessionState is the one stored under that id: no other
\* request removes or replaces either.
C40_RegistrationStaysOwn ==
    \A r \in Requests :
       requests[r].phase = "running" =>
          /\ active_sessions[requests[r].sid] = r
          /\ sessions[requests[r].sid] = requests[r].state

\* ---------------------------------------------------------------- C33
\* the positions of the mark_attempt calls made for key k
MarksOf(k) == {i \in 1..Len(marks) : marks[i].key = k}

\* the most recent mark_attempt call for key k was a failure
LastMarkFailed(k) ==
    /\ MarksOf(k) # {}
    /\ \E i \in MarksOf(k) :
          /\ \A j \in MarksOf(k) : j <= i
          /\ ~ marks[i].success

\* C33: after any sequence of mark_attempt calls, is_duplicate_attempt(a, A)
\* is true iff the most recent mark_attempt for the key of (a, A) was a
\* failure (a failure adds the key, a later success removes it, marks of
\* other keys leave it unchanged).
C33_DuplicateIffLastMarkFailed ==
    \A a \in MarkActions, A \in MarkArgs :
       is_duplicate_attempt(attempt_set, a, A)
          <=> LastMarkFailed(canonicalize_args(a, A))

\* a key was marked failed, then marked successful through the other
\* spelling of its directory, then another key was marked failed
C33_Witness ==
    /\ Len(marks) = 3
    /\ marks[1] = [key |-> canonicalize_args("count_files",
                                             [dir |-> "~/a", limit |-> 50]),
                   success |-> FALSE]
    /\ marks[2] = [marks[1] EXCEPT !.success = TRUE]
    /\ marks[3].key # marks[1].key /\ ~ marks[3].success
    /\ ~ is_duplicate_attempt(attempt_set, "count_files",
                              [dir |-> "/home/u/a", limit |-> 50])
    /\ marks[3].key \in attempt_set

\* ---------------------------------------------------------------- C34
\* the value of key k in a dict given as pairs
ItemOf(items, k) == items[CHOOSE i \in 1..Len(items) : items[i][1] = k][2]

\* the directory a spelling names (home and working directory /home/u)
Denotes(v) ==
    IF v \in {"str:~/a", "str:/home/u/a", "str:a"} THEN "a in home"
    ELSE "b in home"

\* the number a numeric value is equal to in Python (True == 1, 50 == 50.0);
\* a str is equal to no number
NumberOf(v) ==
    CASE v = "int:50" -> 50
      [] v = "float:50.0" -> 50
      [] v = "int:1" -> 1
      [] v = "bool:True" -> 1
      [] OTHER -> -1

EqualValues(v, w) ==
    \/ v = w
    \/ NumberOf(v) # -1 /\ NumberOf(v) = NumberOf(w)

\* two mappings differ only in key order, in the spelling of the directory
\* and in the type of equal values
SameArguments(A, B) ==
    /\ Denotes(ItemOf(A, "dir")) = Denotes(ItemOf(B, "dir"))
    /\ EqualValues(ItemOf(A, "limit"), ItemOf(B, "limit"))

\* C34 (as claimed): canonicalize_args gives the same key to mappings that
\* differ only in key order, in equivalent spellings of a dir value or in
\* equal values of different types, and different keys to different
\* actions.
C34_CanonicalKey ==
    canon.stage = "done" =>
       /\ (canon.a = canon.b /\ SameArguments(canon.A, canon.B))
             => canon.key_a = canon.key_b
       /\ canon.a # canon.b => canon.key_a # canon.key_b

\* ---------------------------------------------------------------- C35
\* the models whose request was made in this call and failed
FailedRequests ==
    {i \in 1..fallback.attempt :
        fallback.chain[i] \in {"http_error", "exception"}}

\* C35 (as claimed): a model whose request raised or returned a status
\* other than success is unhealthy in the health cache when the next model
\* is tried, so a health check within the cache lifetime answers unhealthy.
C35_FailedModelMarkedUnhealthy ==
    fallback.stage # "idle" =>
       \A i \in FailedRequests : fallback.health_cache[i] = "unhealthy"

\* ---------------------------------------------------------------- C36
\* C36: if the LLM critic call fails, answers success=false or raises, the
\* critic result is approved with an empty change list and a reasoning
\* note, and the step goes on to execution; the plan is never modified by
\* the review.
C36_CriticFailsOpen ==
    [][ /\ (critic'.stage \in {"reviewed", "exec"} /\ critic'.outcome
               \in {"call_failed", "raised", "raised_in_loop"})
            => /\ critic'.result.approved
               /\ critic'.result.changes = "empty"
               /\ critic'.result.reasoning
                     \in {"Critic unavailable", "Critic error",
                          "Critic bypassed"}
        /\ critic.stage \in {"called", "reviewed"}
            => critic'.plan = critic.plan
        /\ critic.stage = "reviewed" => critic'.stage = "exec"
      ]_vars

C36_Witness ==
    /\ critic.stage = "exec"
    /\ critic.outcome = "call_failed"
    /\ critic.result.approved
    /\ critic.result.changes = "empty"
    /\ Plans[critic.plan].next_action = "delete_files"

\* ---------------------------------------------------------------- C38
\* C38 (as claimed): a final event with success=true is emitted only when
\* the most recent ledger entry of the session has status ok.
C38_SuccessOnlyAfterOkStep ==
    [][ \A i \in NewEvents("final") :
           channel'[i].success =>
              /\ step_ledger' # <<>>
              /\ Last(step_ledger').status = "ok"
      ]_vars

\* ---------------------------------------------------------------- C31
\* C31 (as claimed): for a simple goal that is no knowledge question (such
\* as "count files on my Desktop") the plan is the one create_simple_plan
\* chose by pattern matching, and no LLM planner is called for it.
C31_SimpleGoalPlannedByPattern ==
    (planning.stage # "idle" /\ planning.simple /\ ~ planning.knowledge) =>
       /\ planning.stage \notin {"enhanced", "standard", "final_fallback"}
       /\ planning.stage = "emitted" => planning.source = "simple"

\* ---------------------------------------------------------------- C32
\* the tool call of the current step was made with a directory outside the
\* sandbox root
EscapingCall ==
    /\ invocations # <<>>
    /\ Last(invocations).n = step
    /\ path_escapes(Last(invocations).args)

\* C32 (as claimed): when the path argument of a tool call resolves outside
\* the sandbox root, the ledger entry of that step has error_class
\* path_outside_sandbox and the loop continues after it.
C32_PathOutsideSandboxClass ==
    [][ (pc = "obs" /\ pc' # pc /\ EscapingCall) =>
          /\ LedgerAppended
          /\ Last(step_ledger').status = "error"
          /\ Last(step_ledger').error_class = "path_outside_sandbox"
          /\ pc' = "awaitVerify"
      ]_vars

\* ---------------------------------------------------------------- C39
\* the stream has delivered a terminal event as its last item and returned
TerminalDelivered ==
    /\ stream_done
    /\ sent # <<>>
    /\ Last(sent).event \in StreamTerminals

\* C39: provided every LLM call and every tool call returns, a started
\* session eventually has a terminal event delivered by its stream and its
\* entries (active_sessions, state manager, metrics manager) removed, on
\* every path, the exception paths included.
C39_SessionEndsAndIsCleanedUp == <>(TerminalDelivered /\ ~ active)

\* a session that ended through the except clause of the loop, delivered
\* and cleaned up
C39_Witness ==
    /\ TerminalDelivered
    /\ ~ active
    /\ Last(sent).event = "final"
    /\ Last(sent).success = FALSE
    /\ Last(sent).confidence = 0
====
